---- MODULE Spec2Model ----
(***************************************************************************)
(* PsychoticDB data engine: the collection store (db/database), the index  *)
(* store (indexes/indexManager) and the index creation route.              *)
(*                                                                         *)
(* The persisted state is modelled file by file:                           *)
(*   dbInfo      data/db_info.json            (its collections array)      *)
(*   metadata    data/collections/<c>/metadata.json (its documentCount)    *)
(*   documents   data/collections/<c>/<id>.json                            *)
(*   indexFiles  data/indexes/<c>_<field>.json                             *)
(* Timestamps (created, updated) are not modelled.                         *)
(***************************************************************************)
EXTENDS Integers, Sequences, FiniteSets, TLC

VARIABLES dbInfo, metadata, documents, indexFiles, uuidCount, last, deleted,
          procs, snapshot

vars == <<dbInfo, metadata, documents, indexFiles, uuidCount, last, deleted,
          procs, snapshot>>

store == <<dbInfo, metadata, documents, indexFiles, uuidCount>>

---------------------------------------------------------------------------
(* Bounds of the model *)

\* documentCount is not raised above this
MaxCount == 2
\* the identifiers uuidv4() hands out are UuidPool[1..MaxUuid]
MaxUuid == 1
\* an index bucket is not grown above this length
MaxBucket == 3
\* the longest list of documents an index is built from
MaxList == 3

---------------------------------------------------------------------------
(* Values *)

\* JavaScript's undefined: the result of reading an absent property
Missing == "<undefined>"
\* JSON null
Null == "<null>"

Colls == {"a"}
Ids == {"d1"}
UuidPool == <<"u1", "u2", "u3">>
Vals == {"x", "y"}
\* the fields of a document, and the fields an index may be created on
Fields == {"_id", "f"}
IndexFields == {"f"}

AllIds == Ids \cup {UuidPool[i] : i \in 1..Len(UuidPool)}
\* the order in which readdir lists the document files of a directory
ReaddirOrder == <<"d1", "d2", "u1", "u2", "u3", "u4">>

Range(s) == {s[i] : i \in DOMAIN s}

\* a document is a function from the names of its properties to their values
Get(doc, field) == IF field \in DOMAIN doc THEN doc[field] ELSE Missing

\* { ...doc, [field]: value }
Assign(doc, field, value) ==
  [k \in DOMAIN doc \cup {field} |-> IF k = field THEN value ELSE doc[k]]

\* delete doc[field]
Delete(doc, field) == [k \in DOMAIN doc \ {field} |-> doc[k]]

\* JSON.stringify of a scalar field value
JSONstringify(v) == IF v = Null THEN "null" ELSE "\"" \o v \o "\""

\* JSON.parse of an index key
JSONparse(key) == IF key = "null" THEN Null ELSE SubSeq(key, 2, Len(key) - 1)

\* the nested objects a document field may hold; the field holds the name of
\* the object
Objects == [o1 |-> [b |-> "x"], o2 |-> [b |-> "y"]]

RECURSIVE stringToPath(_)
\* a path split at its dots
stringToPath(path) ==
  LET dots == {i \in 1..Len(path) : SubSeq(path, i, i) = "."}
  IN  IF dots = {} THEN <<path>>
      ELSE LET i == CHOOSE d \in dots : \A e \in dots : d <= e
           IN  <<SubSeq(path, 1, i - 1)>>
                 \o stringToPath(SubSeq(path, i + 1, Len(path)))

RECURSIVE baseGet(_, _)
\* the value reached from an object along the names of a path
baseGet(object, names) ==
  IF names = <<>> THEN Missing
  ELSE LET value == Get(object, Head(names))
       IN  IF Len(names) = 1 THEN value
           ELSE IF value \in DOMAIN Objects
             THEN baseGet(Objects[value], Tail(names))
             ELSE Missing

\* _.get(doc, path): a property named path itself, else the path resolved
lodashGet(doc, path) ==
  IF path \in DOMAIN doc THEN doc[path]
  ELSE baseGet(doc, stringToPath(path))

\* what a written array element reads back as: JSON has no undefined
JSONelement(v) == IF v = Missing THEN Null ELSE v

---------------------------------------------------------------------------
(* Index store *)

getIndexFilePath(collectionName, field) ==
  collectionName \o "_" \o field \o ".json"

startsWith(file, prefix) ==
  /\ Len(file) >= Len(prefix)
  /\ SubSeq(file, 1, Len(prefix)) = prefix

endsWith(file, suffix) ==
  /\ Len(file) >= Len(suffix)
  /\ SubSeq(file, Len(file) - Len(suffix) + 1, Len(file)) = suffix

\* the index files listIndexes, removeDocumentFromIndexes and
\* deleteCollectionIndexes select for a collection
collectionIndexFiles(files, collectionName) ==
  {file \in DOMAIN files :
     startsWith(file, collectionName \o "_") /\ endsWith(file, ".json")}

listIndexes(files, collectionName) ==
  {files[file] : file \in collectionIndexFiles(files, collectionName)}

\* filterIndex without its "Remove empty arrays" step
filterIndexKeepingEmpty(index, documentId) ==
  [key \in DOMAIN index |->
     SelectSeq(index[key], LAMBDA id : id # documentId)]

\* index[key] = index[key].filter(id => id !== documentId), then the emptied
\* buckets deleted
filterIndex(index, documentId) ==
  LET filtered == [key \in DOMAIN index |->
                     SelectSeq(index[key], LAMBDA id : id # documentId)]
  IN  [key \in {k \in DOMAIN index : filtered[k] # <<>>} |-> filtered[key]]

\* if (!index[valueKey]) index[valueKey] = []; index[valueKey].push(id)
pushId(index, valueKey, id) ==
  [key \in DOMAIN index \cup {valueKey} |->
     IF key = valueKey
       THEN (IF key \in DOMAIN index THEN index[key] ELSE <<>>)
              \o <<JSONelement(id)>>
       ELSE index[key]]

RECURSIVE buildIndex(_, _, _)
\* the forEach of createIndex over documents[i..]
buildIndex(field, docs, index) ==
  IF docs = <<>> THEN index
  ELSE LET doc == Head(docs)
           fieldValue == lodashGet(doc, field)
       IN  buildIndex(field, Tail(docs),
             IF fieldValue # Missing
               THEN pushId(index, JSONstringify(fieldValue), Get(doc, "_id"))
               ELSE index)

\* createIndex starting from the map the index file already holds
createIndexMerging(files, collectionName, field, docs) ==
  LET path == getIndexFilePath(collectionName, field)
      record == [collectionName |-> collectionName, field |-> field,
                 index |-> buildIndex(field, docs,
                             IF path \in DOMAIN files THEN files[path].index
                             ELSE <<>>)]
  IN  [p \in DOMAIN files \cup {path} |->
         IF p = path THEN record ELSE files[p]]

createIndex(files, collectionName, field, docs) ==
  LET path == getIndexFilePath(collectionName, field)
      record == [collectionName |-> collectionName, field |-> field,
                 index |-> buildIndex(field, docs, <<>>)]
  IN  [p \in DOMAIN files \cup {path} |->
         IF p = path THEN record ELSE files[p]]

\* updatedIndex with the bucket of the value replaced instead of pushed to
updatedIndexReplacing(index, field, document) ==
  LET fieldValue == lodashGet(document, field)
      id == JSONelement(Get(document, "_id"))
      valueKey == JSONstringify(fieldValue)
  IN  IF fieldValue = Missing THEN index
      ELSE [key \in DOMAIN filterIndex(index, id) \cup {valueKey} |->
              IF key = valueKey THEN <<id>> ELSE filterIndex(index, id)[key]]

\* the index map updateIndexForDocument writes back, given the one it read
updatedIndex(index, field, document) ==
  LET fieldValue == lodashGet(document, field)
  IN  IF fieldValue = Missing THEN index
      ELSE pushId(filterIndex(index, Get(document, "_id")),
                  JSONstringify(fieldValue), Get(document, "_id"))

\* updateIndexForDocument leaving every index file as it is
updateIndexForDocumentSkipped(files, collectionName, field, document) ==
  files

updateIndexForDocument(files, collectionName, field, document) ==
  LET path == getIndexFilePath(collectionName, field)
  IN  IF path \notin DOMAIN files THEN files
      ELSE IF lodashGet(document, field) = Missing THEN files
      ELSE [files EXCEPT ![path].index = updatedIndex(@, field, document)]

RECURSIVE updateIndexes(_, _, _, _)
\* for (const index of indexes) await updateIndexForDocument(c, index.field, doc)
updateIndexes(files, collectionName, fields, document) ==
  IF fields = {} THEN files
  ELSE LET field == CHOOSE f \in fields : TRUE
       IN  updateIndexes(
             updateIndexForDocument(files, collectionName, field, document),
             collectionName, fields \ {field}, document)

\* removedIndex leaving the identifier where it is
removedIndexKept(index, documentId) == index

\* the index map removeDocumentFromIndexes leaves in a file: the file is
\* written only if (updated), i.e. some bucket lost an entry
removedIndex(index, documentId) ==
  LET updated == \E key \in DOMAIN index :
                   Len(SelectSeq(index[key], LAMBDA id : id # documentId))
                     # Len(index[key])
  IN  IF updated THEN filterIndex(index, documentId) ELSE index

removeDocumentFromIndexes(files, collectionName, documentId) ==
  [file \in DOMAIN files |->
     IF file \in collectionIndexFiles(files, collectionName)
       THEN [files[file] EXCEPT !.index = removedIndex(@, documentId)]
       ELSE files[file]]

\* deleteCollectionIndexes unlinking no file
deleteCollectionIndexesNone(files, collectionName) == files

deleteCollectionIndexes(files, collectionName) ==
  [file \in DOMAIN files \ collectionIndexFiles(files, collectionName) |->
     files[file]]

deleteIndex(files, collectionName, field) ==
  [file \in DOMAIN files \ {getIndexFilePath(collectionName, field)} |->
     files[file]]

---------------------------------------------------------------------------
(* Collection store: helpers *)

\* a store of files with one more file, or one file overwritten
Put(files, name, content) ==
  [n \in DOMAIN files \cup {name} |-> IF n = name THEN content ELSE files[n]]

Remove(files, name) == [n \in DOMAIN files \ {name} |-> files[n]]

RECURSIVE readInOrder(_, _)
\* the documents of a directory, read in the order readdir lists them
readInOrder(dir, order) ==
  IF order = <<>> THEN <<>>
  ELSE (IF Head(order) \in DOMAIN dir THEN <<dir[Head(order)]>> ELSE <<>>)
         \o readInOrder(dir, Tail(order))

\* findDocuments(collectionName) with the empty query: every document
readAllDocuments(collectionName) ==
  readInOrder(documents[collectionName], ReaddirOrder)

\* update.$set applied key by key
RECURSIVE applySet(_, _)
applySet(doc, set) ==
  IF DOMAIN set = {} THEN doc
  ELSE LET key == CHOOSE k \in DOMAIN set : TRUE
       IN  applySet(Assign(doc, key, set[key]),
                    [k \in DOMAIN set \ {key} |-> set[k]])

\* update.$unset applied key by key
RECURSIVE applyUnset(_, _)
applyUnset(doc, unset) ==
  IF unset = {} THEN doc
  ELSE LET key == CHOOSE k \in unset : TRUE
       IN  applyUnset(Delete(doc, key), unset \ {key})

\* updatedDocument of updateDocument: $set, then $unset
applyUpdate(document, update) ==
  applyUnset(applySet(document, update.set), update.unset)

\* the fields update.$set gives a new value in place of another value
changedBySet(document, update) ==
  {key \in DOMAIN update.set :
     /\ Get(document, key) \notin {Missing, update.set[key]}
     /\ Get(applyUpdate(document, update), key) = update.set[key]}

\* the fields of the indexes listIndexes returns for a collection
indexedFields(files, collectionName) ==
  {index.field : index \in listIndexes(files, collectionName)}

\* whether some bucket of before is gone from after (it was emptied and deleted)
bucketCleaned(before, after) ==
  \E file \in DOMAIN before \cap DOMAIN after :
    \E key \in DOMAIN before[file].index : key \notin DOMAIN after[file].index

WithinBounds(files) ==
  \A file \in DOMAIN files :
    \A key \in DOMAIN files[file].index :
      Len(files[file].index[key]) <= MaxBucket

\* the I/O calls of the index store that may fail while a document operation
\* runs: none, the readdir/readJson of listIndexes, the readJson/writeJson of
\* updateIndexForDocument, the readJson of getIndex
Faults == {"none", "listIndexes", "updateIndexForDocument"}
FindFaults == {"none", "getIndex"}

\* the helper listIndexes of the collection store: an error of the index
\* store's listIndexes is caught and the empty list returned
listIndexesHelper(files, collectionName, fault) ==
  IF fault = "listIndexes" THEN {} ELSE listIndexes(files, collectionName)

\* the written files after the catch block of an operation has rethrown, with
\* the files as they were before the operation undone
rolledBack(written, previous) == previous

\* the written files after the catch block of an operation has rethrown: the
\* block logs and rethrows, nothing is undone
notRolledBack(written, previous) == written

\* the state of a collection: its documents, documentCount, and the index files
collectionState(collectionName) ==
  <<documents[collectionName], metadata[collectionName], indexFiles>>

\* the outcome of the last engine operation
Return(op, cleaned) ==
  last' = [op |-> op, status |-> "ok", cleaned |-> cleaned]

\* the operation throws before it has written anything
Throw(op, error) ==
  /\ last' = [op |-> op, status |-> error, cleaned |-> FALSE,
              fault |-> "none"]
  /\ UNCHANGED <<store, deleted>>

---------------------------------------------------------------------------
(* Queries.  A query is the sequence of its <<key, criterion>> pairs in the    *)
(* order of Object.keys; a criterion is [value |-> v] for a scalar or null and *)
(* [operators |-> <<op, operand>> pairs] for an object.                        *)

\* typeof criterion === 'object' && criterion !== null
isOperators(criterion) == "operators" \in DOMAIN criterion

\* the order of the string values under < and >
ValOrder == <<"x", "y">>
Rank(v) == CHOOSE i \in DOMAIN ValOrder : ValOrder[i] = v

\* a < b and a <= b of JavaScript: undefined compares false with everything,
\* null and strings that are not numbers compare false, null <= null holds
Less(a, b) == a \in Range(ValOrder) /\ b \in Range(ValOrder) /\ Rank(a) < Rank(b)
LessEq(a, b) == Less(a, b) \/ (a = b /\ a \in Range(ValOrder) \cup {Null})

\* the switch of findDocuments with a default that accepts the document
evalOperatorLenient(op, docValue, operand) ==
  CASE op = "$eq" -> docValue = operand
    [] op = "$ne" -> docValue # operand
    [] op = "$gt" -> Less(operand, docValue)
    [] op = "$gte" -> LessEq(operand, docValue)
    [] op = "$lt" -> Less(docValue, operand)
    [] op = "$lte" -> LessEq(docValue, operand)
    [] OTHER -> TRUE

\* the switch of findDocuments over the operators, on doc[key]
evalOperator(op, docValue, operand) ==
  CASE op = "$eq" -> docValue = operand
    [] op = "$ne" -> docValue # operand
    [] op = "$gt" -> Less(operand, docValue)
    [] op = "$gte" -> LessEq(operand, docValue)
    [] op = "$lt" -> Less(docValue, operand)
    [] op = "$lte" -> LessEq(docValue, operand)
    [] OTHER -> FALSE

\* the filter of findDocuments on one document
matches(doc, query) ==
  \A i \in DOMAIN query :
    LET key == query[i][1]
        criterion == query[i][2]
    IN  IF isOperators(criterion)
          THEN \A j \in DOMAIN criterion.operators :
                 evalOperator(criterion.operators[j][1], Get(doc, key),
                              criterion.operators[j][2])
          ELSE Get(doc, key) = criterion.value

\* the switch of queryWithIndex over the operators, on an index key
keyMatches(op, key, operand) ==
  CASE op = "$eq" -> key = JSONstringify(operand)
    [] op = "$ne" -> key # JSONstringify(operand)
    [] op = "$gt" -> Less(operand, JSONparse(key))
    [] op = "$gte" -> LessEq(operand, JSONparse(key))
    [] op = "$lt" -> Less(JSONparse(key), operand)
    [] op = "$lte" -> LessEq(JSONparse(key), operand)
    [] OTHER -> FALSE

\* idsForOperator: the identifiers under the index keys an operator selects
idsForOperator(index, op, operand) ==
  UNION {Range(index[key]) :
           key \in {k \in DOMAIN index : keyMatches(op, k, operand)}}

RECURSIVE foldOperators(_, _, _)
\* the forEach over the operators: the first sets matchingIds, a later one
\* filters it, or sets it when it is empty
foldOperators(index, operators, matchingIds) ==
  IF operators = <<>> THEN matchingIds
  ELSE LET ids == idsForOperator(index, Head(operators)[1], Head(operators)[2])
       IN  foldOperators(index, Tail(operators),
             IF matchingIds = {} THEN ids ELSE matchingIds \cap ids)

\* matchingIds of queryWithIndex for the value queried on the indexed field
matchingIdsOf(index, queryValue) ==
  IF isOperators(queryValue)
    THEN foldOperators(index, queryValue.operators, {})
    ELSE LET valueKey == JSONstringify(queryValue.value)
         IN  IF valueKey \in DOMAIN index THEN Range(index[valueKey]) ELSE {}

\* the positions of the query fields getIndex finds an index file for
indexedPositions(files, collectionName, query) ==
  {i \in DOMAIN query :
     getIndexFilePath(collectionName, query[i][1]) \in DOMAIN files}

\* queryWithIndex; when the readJson of getIndex fails the catch block
\* returns every document
queryWithIndex(files, collectionName, query, docs, fault) ==
  LET positions == indexedPositions(files, collectionName, query)
  IN  IF query = <<>> \/ positions = {} \/ fault = "getIndex" THEN docs
      ELSE LET first == CHOOSE i \in positions : \A j \in positions : i <= j
               path == getIndexFilePath(collectionName, query[first][1])
               matchingIds == matchingIdsOf(files[path].index, query[first][2])
           IN  SelectSeq(docs, LAMBDA doc : Get(doc, "_id") \in matchingIds)

\* what findDocuments returns for the files given
findResult(dir, files, collectionName, query, fault) ==
  LET filteredDocuments ==
        queryWithIndex(files, collectionName, query,
                       readInOrder(dir, ReaddirOrder), fault)
  IN  IF query # <<>>
        THEN SelectSeq(filteredDocuments, LAMBDA doc : matches(doc, query))
        ELSE filteredDocuments

---------------------------------------------------------------------------
(* Inputs *)

\* the documents a client inserts: with or without an _id, with or without f
InsertDocs ==
  {doc \in UNION {[D -> Ids \cup Vals] : D \in SUBSET Fields} :
     /\ "_id" \in DOMAIN doc => doc["_id"] \in Ids
     /\ "f" \in DOMAIN doc => doc["f"] \in Vals}

\* the update specifications a client sends: $set of one field (f, or _id)
\* or absent, $unset of f or absent
SetSpecs ==
  {<<>>} \cup {[k \in {"f"} |-> v] : v \in Vals}
         \cup {[k \in {"_id"} |-> i] : i \in Ids}

Updates == [set : SetSpecs, unset : {{}, {"f"}}]

---------------------------------------------------------------------------
(* Engine operations, each run from call to return *)

\* createCollection without its "already exists" check
createCollectionUnchecked(name) ==
  /\ documents' = Put(documents, name, <<>>)
  /\ metadata' = Put(metadata, name, 0)
  /\ dbInfo' = Append(dbInfo, name)
  /\ UNCHANGED <<indexFiles, uuidCount, deleted>>
  /\ Return("createCollection", FALSE)
  /\ UNCHANGED <<procs, snapshot>>

createCollection(name) ==
  /\ IF name = ""
       THEN Throw("createCollection", "InvalidArgument")
       ELSE IF name \in Range(dbInfo)
       THEN Throw("createCollection", "AlreadyExists")
       ELSE /\ documents' = IF name \in DOMAIN documents THEN documents
                            ELSE Put(documents, name, <<>>)
            /\ metadata' = Put(metadata, name, 0)
            /\ dbInfo' = Append(dbInfo, name)
            /\ UNCHANGED <<indexFiles, uuidCount, deleted>>
            /\ Return("createCollection", FALSE)
  /\ UNCHANGED <<procs, snapshot>>

deleteCollection(name) ==
  /\ IF name \notin Range(dbInfo)
       THEN Throw("deleteCollection", "NotFound")
       ELSE /\ documents' = Remove(documents, name)
            /\ metadata' = Remove(metadata, name)
            /\ indexFiles' = deleteCollectionIndexes(indexFiles, name)
            /\ dbInfo' = SelectSeq(dbInfo, LAMBDA c : c # name)
            /\ deleted' = [deleted EXCEPT ![name] = {}]
            /\ UNCHANGED uuidCount
            /\ last' = [op |-> "deleteCollection", status |-> "ok",
                        cleaned |-> FALSE,
                        documents |-> DOMAIN documents[name],
                        indexes |-> collectionIndexFiles(indexFiles, name)]
  /\ UNCHANGED <<procs, snapshot>>

\* insertDocument, with the I/O call of the index store that fails in it
insertDocumentWith(collectionName, document, fault) ==
  /\ IF collectionName \notin Range(dbInfo)
       THEN Throw("insertDocument", "NotFound")
       ELSE LET provided == Get(document, "_id") # Missing
                id == IF provided THEN document["_id"]
                      ELSE UuidPool[uuidCount + 1]
                documentWithId == Assign(document, "_id", id)
                indexes == listIndexesHelper(indexFiles, collectionName, fault)
                failed == fault = "updateIndexForDocument"
                files == IF failed THEN indexFiles
                         ELSE updateIndexes(indexFiles, collectionName,
                                {index.field : index \in indexes},
                                documentWithId)
                written == [documents EXCEPT ![collectionName] =
                              Put(@, id, documentWithId)]
                counted == [metadata EXCEPT ![collectionName] = @ + 1]
            IN  /\ provided \/ uuidCount < MaxUuid
                /\ metadata[collectionName] < MaxCount
                /\ WithinBounds(files)
                /\ failed => indexes # {}
                /\ documents' = IF failed THEN notRolledBack(written, documents)
                                 ELSE written
                /\ metadata' = IF failed THEN notRolledBack(counted, metadata)
                                ELSE counted
                /\ indexFiles' = files
                /\ uuidCount' = IF provided THEN uuidCount ELSE uuidCount + 1
                /\ deleted' = [deleted EXCEPT ![collectionName] = @ \ {id}]
                /\ UNCHANGED dbInfo
                /\ last' = [op |-> "insertDocument",
                            status |-> IF failed THEN "Internal" ELSE "ok",
                            cleaned |-> bucketCleaned(indexFiles, files),
                            collectionName |-> collectionName, id |-> id,
                            fault |-> fault]
  /\ UNCHANGED <<procs, snapshot>>

insertDocument(collectionName, document) ==
  insertDocumentWith(collectionName, document, "none")

\* updateDocument, with the I/O call of the index store that fails in it
updateDocumentWith(collectionName, id, update, fault) ==
  /\ IF collectionName \notin Range(dbInfo)
       THEN Throw("updateDocument", "NotFound")
       ELSE IF id \notin DOMAIN documents[collectionName]
       THEN Throw("updateDocument", "NotFound")
       ELSE LET document == documents[collectionName][id]
                updatedDocument == applyUpdate(document, update)
                indexes == listIndexesHelper(indexFiles, collectionName, fault)
                failed == fault = "updateIndexForDocument"
                files == IF failed THEN indexFiles
                         ELSE updateIndexes(indexFiles, collectionName,
                                {index.field : index \in indexes},
                                updatedDocument)
                written == [documents EXCEPT ![collectionName][id] =
                              updatedDocument]
            IN  /\ WithinBounds(files)
                /\ failed => indexes # {}
                /\ documents' = IF failed THEN notRolledBack(written, documents)
                                 ELSE written
                /\ indexFiles' = files
                /\ UNCHANGED <<dbInfo, metadata, uuidCount, deleted>>
                /\ last' = [op |-> "updateDocument",
                            status |-> IF failed THEN "Internal" ELSE "ok",
                            cleaned |-> bucketCleaned(indexFiles, files),
                            collectionName |-> collectionName, id |-> id,
                            fault |-> fault,
                            changed |-> changedBySet(document, update)]
  /\ UNCHANGED <<procs, snapshot>>

updateDocument(collectionName, id, update) ==
  updateDocumentWith(collectionName, id, update, "none")

\* what deleteDocument leaves of the files it is given, once the document
\* file is found: the identifier out of the indexes, the file unlinked,
\* documentCount one less
deleteOutcome(docs, meta, files, collectionName, id) ==
  [indexFiles |-> removeDocumentFromIndexes(files, collectionName, id),
   documents |-> [docs EXCEPT ![collectionName] = Remove(@, id)],
   metadata |-> [meta EXCEPT ![collectionName] = @ - 1]]

\* deleteDocument without its pathExists check: unlink of an absent file is
\* taken as done
deleteDocumentUnchecked(collectionName, id) ==
  /\ collectionName \in Range(dbInfo)
  /\ indexFiles' = removeDocumentFromIndexes(indexFiles, collectionName, id)
  /\ documents' = [documents EXCEPT ![collectionName] = Remove(@, id)]
  /\ metadata' = [metadata EXCEPT ![collectionName] = @ - 1]
  /\ UNCHANGED <<dbInfo, uuidCount, deleted>>
  /\ Return("deleteDocument", FALSE)
  /\ UNCHANGED <<procs, snapshot>>

deleteDocument(collectionName, id) ==
  /\ IF collectionName \notin Range(dbInfo)
       THEN Throw("deleteDocument", "NotFound")
       ELSE IF id \notin DOMAIN documents[collectionName]
       THEN Throw("deleteDocument", "NotFound")
       ELSE LET outcome == deleteOutcome(documents, metadata, indexFiles,
                                         collectionName, id)
                files == outcome.indexFiles
                stored == Get(documents[collectionName][id], "_id")
            IN  /\ indexFiles' = files
                /\ documents' = outcome.documents
                /\ metadata' = outcome.metadata
                /\ deleted' = [deleted EXCEPT ![collectionName] =
                                 @ \cup ({id, stored} \ {Missing})]
                /\ UNCHANGED <<dbInfo, uuidCount>>
                /\ last' = [op |-> "deleteDocument", status |-> "ok",
                            cleaned |-> bucketCleaned(indexFiles, files),
                            collectionName |-> collectionName, id |-> id]
  /\ UNCHANGED <<procs, snapshot>>

\* findDocuments, with the I/O call of the index store that fails in it
findDocumentsWith(collectionName, query, fault) ==
  /\ IF collectionName \notin Range(dbInfo)
       THEN Throw("findDocuments", "NotFound")
       ELSE /\ fault = "getIndex" =>
                 indexedPositions(indexFiles, collectionName, query) # {}
            /\ last' = [op |-> "findDocuments", status |-> "ok",
                        cleaned |-> FALSE, collectionName |-> collectionName,
                        query |-> query, fault |-> fault,
                        result |-> findResult(documents[collectionName],
                                     indexFiles, collectionName, query, fault)]
            /\ UNCHANGED <<store, deleted>>
  /\ UNCHANGED <<procs, snapshot>>

findDocuments(collectionName, query) ==
  findDocumentsWith(collectionName, query, "none")

\* POST /api/indexes/:collection
postIndex(collection, field) ==
  /\ IF collection \notin Range(dbInfo)
       THEN Throw("createIndex", "NotFound")
       ELSE /\ indexFiles' = createIndex(indexFiles, collection, field,
                                         readAllDocuments(collection))
            /\ UNCHANGED <<dbInfo, metadata, documents, uuidCount, deleted>>
            /\ Return("createIndex", FALSE)
  /\ UNCHANGED <<procs, snapshot>>

\* DELETE /api/indexes/:collection/:field
deleteIndexRoute(collection, field) ==
  /\ IF getIndexFilePath(collection, field) \notin DOMAIN indexFiles
       THEN Throw("deleteIndex", "NotFound")
       ELSE /\ indexFiles' = deleteIndex(indexFiles, collection, field)
            /\ UNCHANGED <<dbInfo, metadata, documents, uuidCount, deleted>>
            /\ Return("deleteIndex", FALSE)
  /\ UNCHANGED <<procs, snapshot>>

---------------------------------------------------------------------------
(* The engine serving one request at a time *)

\* the state initDB and initIndexes leave on first use
Init ==
  /\ dbInfo = <<>>
  /\ metadata = <<>>
  /\ documents = <<>>
  /\ indexFiles = <<>>
  /\ uuidCount = 0
  /\ last = [op |-> "initDB", status |-> "ok", cleaned |-> FALSE]
  /\ deleted = [c \in Colls |-> {}]
  /\ procs = <<>>
  /\ snapshot = 0

Next ==
  \E c \in Colls :
    \/ \E name \in {c, ""} : createCollection(name)
    \/ deleteCollection(c)
    \/ \E doc \in InsertDocs : insertDocument(c, doc)
    \/ \E id \in AllIds, update \in Updates : updateDocument(c, id, update)
    \/ \E id \in AllIds : deleteDocument(c, id)
    \/ \E field \in IndexFields : postIndex(c, field)
    \/ \E field \in IndexFields : deleteIndexRoute(c, field)

Spec == Init /\ [][Next]_vars

---------------------------------------------------------------------------
(* Request handlers running concurrently.  A handler runs from one await to *)
(* the next without interruption; every file read or write is one await.   *)
(* There is no lock: handlers of different requests interleave at awaits.  *)

Procs == {"p1", "p2"}
ConcIds == {"d1", "d2"}

\* the documents and update specifications of the concurrent requests; a
\* document is inserted under an identifier that is not in the collection
ConcInsertDocs == {[k \in Fields |-> IF k = "_id" THEN i ELSE v] :
                     i \in ConcIds, v \in Vals}
ConcUpdates == [set : {[k \in {"f"} |-> v] : v \in Vals}, unset : {{}}]

\* the collection directories the concurrent requests may find
ConcDirs ==
  {[i \in D |-> [k \in Fields |-> IF k = "_id" THEN i ELSE "x"]] :
     D \in SUBSET ConcIds}

\* the local variables of a handler
Frame(pc, op, collectionName, id, document, update) ==
  [pc |-> pc, op |-> op, collectionName |-> collectionName, id |-> id,
   document |-> document, update |-> update, metadata |-> 0, fields |-> {},
   index |-> <<>>, status |-> "running"]

IdleFrame == Frame("idle", "none", "", "", <<>>, <<>>)

\* the handler returns, or throws error
Finish(p, status) ==
  procs' = [procs EXCEPT ![p].pc = "done", ![p].status = status]

Goto(p, pc) == procs' = [procs EXCEPT ![p].pc = pc]

\* insertDocument up to its first await: getDBInfo, the collection check, the id
insertBegin(p, collectionName, document) ==
  /\ procs[p].pc = "idle"
  /\ IF collectionName \notin Range(dbInfo)
       THEN procs' = [procs EXCEPT ![p] =
              [Frame("done", "insertDocument", collectionName, "", document,
                     <<>>) EXCEPT !.status = "NotFound"]]
       ELSE procs' = [procs EXCEPT ![p] =
              Frame("insWriteDocument", "insertDocument", collectionName,
                    document["_id"], document, <<>>)]
  /\ UNCHANGED <<store, last, deleted, snapshot>>

\* await fs.writeJson(documentFile, documentWithId)
insWriteDocument(p) ==
  /\ procs[p].pc = "insWriteDocument"
  /\ documents' = [documents EXCEPT ![procs[p].collectionName] =
                     Put(@, procs[p].id, procs[p].document)]
  /\ Goto(p, "insReadMetadata")
  /\ UNCHANGED <<dbInfo, metadata, indexFiles, uuidCount, last, deleted,
                 snapshot>>

\* const metadata = await fs.readJson(metadataFile); metadata.documentCount++
insReadMetadata(p) ==
  /\ procs[p].pc = "insReadMetadata"
  /\ procs' = [procs EXCEPT
       ![p].metadata = metadata[procs[p].collectionName] + 1,
       ![p].pc = "insWriteMetadata"]
  /\ UNCHANGED <<store, last, deleted, snapshot>>

\* await fs.writeJson(metadataFile, metadata)
insWriteMetadata(p) ==
  /\ procs[p].pc = "insWriteMetadata"
  /\ metadata' = [metadata EXCEPT ![procs[p].collectionName] =
                    procs[p].metadata]
  /\ Goto(p, "listIndexes")
  /\ UNCHANGED <<dbInfo, documents, indexFiles, uuidCount, last, deleted,
                 snapshot>>

\* updateDocument up to its first await: getDBInfo, the collection check
updateBegin(p, collectionName, id, update) ==
  /\ procs[p].pc = "idle"
  /\ IF collectionName \notin Range(dbInfo)
       THEN procs' = [procs EXCEPT ![p] =
              [Frame("done", "updateDocument", collectionName, id, <<>>,
                     update) EXCEPT !.status = "NotFound"]]
       ELSE procs' = [procs EXCEPT ![p] =
              Frame("updPathExists", "updateDocument", collectionName, id,
                    <<>>, update)]
  /\ UNCHANGED <<store, last, deleted, snapshot>>

\* if (!await fs.pathExists(documentFile)) throw
updPathExists(p) ==
  /\ procs[p].pc = "updPathExists"
  /\ IF procs[p].id \notin DOMAIN documents[procs[p].collectionName]
       THEN Finish(p, "NotFound")
       ELSE Goto(p, "updReadDocument")
  /\ UNCHANGED <<store, last, deleted, snapshot>>

\* const document = await fs.readJson(documentFile), and $set/$unset applied
updReadDocument(p) ==
  /\ procs[p].pc = "updReadDocument"
  /\ procs[p].id \in DOMAIN documents[procs[p].collectionName]
  /\ procs' = [procs EXCEPT
       ![p].document =
          applyUpdate(documents[procs[p].collectionName][procs[p].id],
                      procs[p].update),
       ![p].pc = "updWriteDocument"]
  /\ UNCHANGED <<store, last, deleted, snapshot>>

\* await fs.writeJson(documentFile, updatedDocument)
updWriteDocument(p) ==
  /\ procs[p].pc = "updWriteDocument"
  /\ documents' = [documents EXCEPT ![procs[p].collectionName] =
                     Put(@, procs[p].id, procs[p].document)]
  /\ Goto(p, "listIndexes")
  /\ UNCHANGED <<dbInfo, metadata, indexFiles, uuidCount, last, deleted,
                 snapshot>>

\* the loop over indexes goes on with the fields left, or the handler returns
NextIndex(p, fields) ==
  procs' = [procs EXCEPT
    ![p].fields = fields,
    ![p].pc = IF fields = {} THEN "done" ELSE "uifdPathExists",
    ![p].status = IF fields = {} THEN "ok" ELSE @]

\* the field of the index the loop is at
currentField(p) == CHOOSE f \in procs[p].fields : TRUE

\* const indexes = await listIndexes(collectionName)
stepListIndexes(p) ==
  /\ procs[p].pc = "listIndexes"
  /\ NextIndex(p, indexedFields(indexFiles, procs[p].collectionName))
  /\ UNCHANGED <<store, last, deleted, snapshot>>

\* updateIndexForDocument: if (!await fs.pathExists(indexFilePath)) return
uifdPathExists(p) ==
  /\ procs[p].pc = "uifdPathExists"
  /\ IF getIndexFilePath(procs[p].collectionName, currentField(p))
          \notin DOMAIN indexFiles
       THEN NextIndex(p, procs[p].fields \ {currentField(p)})
       ELSE Goto(p, "uifdReadJson")
  /\ UNCHANGED <<store, last, deleted, snapshot>>

\* updateIndexForDocument: const indexData = await fs.readJson(indexFilePath),
\* and the index map changed in memory up to the await of writeJson
uifdReadJson(p) ==
  /\ procs[p].pc = "uifdReadJson"
  /\ LET path == getIndexFilePath(procs[p].collectionName, currentField(p))
     IN  /\ path \in DOMAIN indexFiles
         /\ IF lodashGet(procs[p].document, currentField(p)) = Missing
              THEN NextIndex(p, procs[p].fields \ {currentField(p)})
              ELSE procs' = [procs EXCEPT
                     ![p].index = updatedIndex(indexFiles[path].index,
                                    currentField(p), procs[p].document),
                     ![p].pc = "uifdWriteJson"]
  /\ UNCHANGED <<store, last, deleted, snapshot>>

\* updateIndexForDocument: await fs.writeJson(indexFilePath, indexData)
uifdWriteJson(p) ==
  /\ procs[p].pc = "uifdWriteJson"
  /\ LET path == getIndexFilePath(procs[p].collectionName, currentField(p))
     IN  indexFiles' = Put(indexFiles, path,
           [collectionName |-> procs[p].collectionName,
            field |-> currentField(p), index |-> procs[p].index])
  /\ NextIndex(p, procs[p].fields \ {currentField(p)})
  /\ UNCHANGED <<dbInfo, metadata, documents, uuidCount, last, deleted,
                 snapshot>>

\* a collection with some documents and a coherent index on f, two requests
\* about to arrive
InitConc ==
  /\ dbInfo = <<"a">>
  /\ documents \in {[c \in {"a"} |-> dir] : dir \in ConcDirs}
  /\ metadata = [c \in {"a"} |-> Cardinality(DOMAIN documents[c])]
  /\ indexFiles = createIndex(<<>>, "a", "f", readAllDocuments("a"))
  /\ uuidCount = 0
  /\ last = [op |-> "initDB", status |-> "ok", cleaned |-> FALSE]
  /\ deleted = [c \in Colls |-> {}]
  /\ procs = [p \in Procs |-> IdleFrame]
  /\ snapshot = metadata["a"]

NextConc ==
  \E p \in Procs :
    \/ \E doc \in {d \in ConcInsertDocs : d["_id"] \notin DOMAIN documents["a"]} :
         insertBegin(p, "a", doc)
    \/ insWriteDocument(p)
    \/ insReadMetadata(p)
    \/ insWriteMetadata(p)
    \/ \E id \in ConcIds, update \in ConcUpdates : updateBegin(p, "a", id, update)
    \/ updPathExists(p)
    \/ updReadDocument(p)
    \/ updWriteDocument(p)
    \/ stepListIndexes(p)
    \/ uifdPathExists(p)
    \/ uifdReadJson(p)
    \/ uifdWriteJson(p)

SpecConc == InitConc /\ [][NextConc]_vars

---------------------------------------------------------------------------
(* The engine serving one request at a time on a collection with an index, *)
(* where an I/O call of the index store may fail.                           *)

\* the identifiers the clients give their documents
FindIds == {"d1", "d2"}

\* the documents and update specifications of the requests: documents with
\* an _id, updates of f
FaultDocs ==
  {[k \in {"_id"} |-> i] : i \in FindIds}
    \cup {[k \in Fields |-> IF k = "_id" THEN i ELSE v] :
            i \in FindIds, v \in Vals}
FaultUpdates ==
  [set : {<<>>} \cup {[k \in {"f"} |-> v] : v \in Vals}, unset : {{}, {"f"}}]

\* the queries of the requests: empty, or f equal to a value
FaultQueries == {<<>>} \cup {<<<<"f", [value |-> v]>>>> : v \in Vals}

\* collection a, empty, with an index on f
InitFault ==
  /\ dbInfo = <<"a">>
  /\ documents = [c \in {"a"} |-> <<>>]
  /\ metadata = [c \in {"a"} |-> 0]
  /\ indexFiles = createIndex(<<>>, "a", "f", <<>>)
  /\ uuidCount = 0
  /\ last = [op |-> "createIndex", status |-> "ok", cleaned |-> FALSE]
  /\ deleted = [c \in Colls |-> {}]
  /\ procs = <<>>
  /\ snapshot = 0

NextFault ==
  \E c \in Colls :
    \/ \E doc \in FaultDocs, fault \in Faults :
         insertDocumentWith(c, doc, fault)
    \/ \E id \in FindIds, update \in FaultUpdates, fault \in Faults :
         updateDocumentWith(c, id, update, fault)
    \/ \E id \in FindIds : deleteDocument(c, id)
    \/ \E query \in FaultQueries, fault \in FindFaults :
         findDocumentsWith(c, query, fault)

SpecFault == InitFault /\ [][NextFault]_vars

---------------------------------------------------------------------------
(* findDocuments on the collections a client may have stored, with and      *)
(* without indexes on the queried fields.                                   *)

\* the documents stored: an _id, f with a value or absent, a with a nested
\* object {b: ...} or absent
FindDocs ==
  {doc \in UNION {[D \cup {"_id"} -> FindIds \cup Vals \cup DOMAIN Objects] :
                    D \in SUBSET {"f", "a"}} :
     /\ doc["_id"] \in FindIds
     /\ "f" \in DOMAIN doc => doc["f"] \in Vals
     /\ "a" \in DOMAIN doc => doc["a"] \in DOMAIN Objects}

\* the collection directories: each document in the file named by its _id
FindDirs ==
  {dir \in UNION {[D -> FindDocs] : D \in SUBSET FindIds} :
     \A id \in DOMAIN dir : dir[id]["_id"] = id}

\* the fields the collection may have indexes on
FindIndexFields == {"f", "a.b"}

RECURSIVE createIndexes(_, _, _, _)
\* the index files after POST /api/indexes for each of the fields
createIndexes(files, collectionName, fields, docs) ==
  IF fields = {} THEN files
  ELSE LET field == CHOOSE f \in fields : TRUE
       IN  createIndexes(createIndex(files, collectionName, field, docs),
                         collectionName, fields \ {field}, docs)

\* the queries of the clients
queryValue(key, v) == <<<<key, [value |-> v]>>>>
queryOperator(key, op, operand) ==
  <<<<key, [operators |-> <<<<op, operand>>>>]>>>>

ComparisonOperators == {"$eq", "$ne", "$gt", "$gte", "$lt", "$lte"}
MembershipOperators == {"$in", "$nin"}
Arrays == {<<>>, <<"x">>, <<"x", "y">>}

\* operator names neither switch has a case for
UnknownOperators == {"$foo"}

\* a criterion with an unknown operator, alone or followed by a known one
queryUnknown(key, op, operand, known) ==
  <<<<key, [operators |-> <<<<op, operand>>>> \o known]>>>>

\* collection a with documents in it and coherent indexes on some fields
InitFind ==
  /\ dbInfo = <<"a">>
  /\ documents \in {[c \in {"a"} |-> dir] : dir \in FindDirs}
  /\ metadata = [c \in {"a"} |-> Cardinality(DOMAIN documents[c])]
  /\ indexFiles \in {createIndexes(<<>>, "a", fields, readAllDocuments("a")) :
                        fields \in SUBSET FindIndexFields}
  /\ uuidCount = 0
  /\ last = [op |-> "initDB", status |-> "ok", cleaned |-> FALSE]
  /\ deleted = [c \in Colls |-> {}]
  /\ procs = <<>>
  /\ snapshot = 0

NextFind ==
  \E c \in Colls :
    \/ \E key \in FindIndexFields, v \in Vals :
         findDocuments(c, queryValue(key, v))
    \/ \E op \in ComparisonOperators, v \in Vals :
         findDocuments(c, queryOperator("f", op, v))
    \/ \E op \in MembershipOperators, array \in Arrays :
         findDocuments(c, queryOperator("f", op, array))
    \/ \E b \in BOOLEAN : findDocuments(c, queryOperator("f", "$exists", b))
    \/ \E key \in FindIndexFields, op \in UnknownOperators, v \in Vals,
          known \in {<<>>} \cup {<<<<"$eq", w>>>> : w \in Vals} :
         findDocuments(c, queryUnknown(key, op, v, known))

SpecFind == InitFind /\ [][NextFind]_vars

---------------------------------------------------------------------------
(* updateDocument with a $set whose key is a dot-separated path, on the     *)
(* collections of the find section.                                         *)

\* the keys a client names in $set
SetPaths == {"a.b"}

\* the update { $set: { [path]: value } }
setPath(path, value) == [set |-> [k \in {path} |-> value], unset |-> {}]

NextSet ==
  \E c \in Colls, id \in FindIds, path \in SetPaths, v \in Vals :
    updateDocument(c, id, setPath(path, v))

SpecSet == InitFind /\ [][NextSet]_vars

---------------------------------------------------------------------------
(* Aggregation.  The JSON values of documents and pipelines are records     *)
(* tagged by their type, so that values of different types are unequal:     *)
(* [num |-> n], [str |-> s], [bool |-> b], [null |-> TRUE], [arr |-> a      *)
(* sequence of values], [obj |-> a function from property names to values], *)
(* and, for what JavaScript computes, [undef |-> TRUE] and [nan |-> TRUE].  *)
(* A document is the function of an object.  A thrown Error is              *)
(* [throw |-> message].                                                     *)

Num(n) == [num |-> n]
Str(s) == [str |-> s]
Bool(b) == [bool |-> b]
Arr(a) == [arr |-> a]
Obj(o) == [obj |-> o]
NullValue == [null |-> TRUE]
Undefined == [undef |-> TRUE]
NaN == [nan |-> TRUE]
Error(message) == [throw |-> message]

isNum(v) == "num" \in DOMAIN v
isStr(v) == "str" \in DOMAIN v
isBool(v) == "bool" \in DOMAIN v
isArr(v) == "arr" \in DOMAIN v
isObj(v) == "obj" \in DOMAIN v
isThrow(v) == "throw" \in DOMAIN v

\* typeof v === 'object'
typeofObject(v) == isArr(v) \/ isObj(v) \/ v = NullValue

\* the order in which the objects of the model list their keys
KeyOrder ==
  <<"0", "1", "2", "$unwind", "$match", "$group", "$project", "$sort",
    "$limit", "$skip", "$lookup", "$count", "$foo",
    "$multiply", "$round", "$literal", "$sum", "$gte",
    "_id", "path", "preserveNullAndEmptyArrays", "includeArrayIndex",
    "from", "localField", "foreignField", "as",
    "k", "items", "price", "quantity", "revenue", "n", "idx">>

RECURSIVE inAnyOrder(_)
\* the elements of a set one after the other
inAnyOrder(S) ==
  IF S = {} THEN <<>>
  ELSE LET x == CHOOSE y \in S : TRUE IN <<x>> \o inAnyOrder(S \ {x})

\* Object.keys(object)
ObjectKeys(object) ==
  SelectSeq(KeyOrder, LAMBDA key : key \in DOMAIN object)
    \o inAnyOrder(DOMAIN object \ Range(KeyOrder))

Digits == "0123456789"

RECURSIVE numeral(_)
\* String(n) of an integer
numeral(n) ==
  IF n < 0 THEN "-" \o numeral(0 - n)
  ELSE IF n < 10 THEN SubSeq(Digits, n + 1, n + 1)
  ELSE numeral(n \div 10) \o SubSeq(Digits, (n % 10) + 1, (n % 10) + 1)

\* the value of a digit character, or -1
digitOf(ch) ==
  IF \E d \in 0..9 : SubSeq(Digits, d + 1, d + 1) = ch
    THEN CHOOSE d \in 0..9 : SubSeq(Digits, d + 1, d + 1) = ch
    ELSE 0 - 1

RECURSIVE parseDigits(_, _)
\* the number a string of digits denotes after the digits read so far, or NaN
parseDigits(s, sofar) ==
  IF s = "" THEN Num(sofar)
  ELSE IF digitOf(SubSeq(s, 1, 1)) < 0 THEN NaN
  ELSE parseDigits(SubSeq(s, 2, Len(s)),
                   10 * sofar + digitOf(SubSeq(s, 1, 1)))

RECURSIVE join(_)
RECURSIVE toString(_)
\* String(v)
toString(v) ==
  CASE isStr(v) -> v.str
    [] isNum(v) -> numeral(v.num)
    [] isBool(v) -> IF v.bool THEN "true" ELSE "false"
    [] v = NullValue -> "null"
    [] v = Undefined -> "undefined"
    [] v = NaN -> "NaN"
    [] isArr(v) -> join(v.arr)
    [] isObj(v) -> "[object Object]"

\* Array.prototype.join(','): null and undefined elements give ''
join(a) ==
  IF a = <<>> THEN ""
  ELSE (IF Head(a) \in {NullValue, Undefined} THEN "" ELSE toString(Head(a)))
         \o (IF Len(a) = 1 THEN "" ELSE "," \o join(Tail(a)))

\* Number(v): Num(n) or NaN
ToNumber(v) ==
  CASE isNum(v) -> v
    [] isStr(v) -> parseDigits(v.str, 0)
    [] isBool(v) -> Num(IF v.bool THEN 1 ELSE 0)
    [] v = NullValue -> Num(0)
    [] isArr(v) -> parseDigits(join(v.arr), 0)
    [] OTHER -> NaN

\* !v : false, 0, NaN, '', null and undefined are falsy
falsy(v) ==
  v \in {Bool(FALSE), Num(0), NaN, Str(""), NullValue, Undefined}

\* value || 0
orZero(v) == IF falsy(v) THEN Num(0) ELSE v

\* a + b: concatenation when an operand is a string, an array or an object
plus(a, b) ==
  LET sum(x, y) == IF x = NaN \/ y = NaN THEN NaN ELSE Num(x.num + y.num)
  IN  IF isStr(a) \/ isStr(b) \/ isArr(a) \/ isArr(b) \/ isObj(a) \/ isObj(b)
        THEN Str(toString(a) \o toString(b))
        ELSE sum(ToNumber(a), ToNumber(b))

\* a - b
minus(a, b) ==
  LET difference(x, y) ==
        IF x = NaN \/ y = NaN THEN NaN ELSE Num(x.num - y.num)
  IN  difference(ToNumber(a), ToNumber(b))

\* a * b
times(a, b) ==
  LET product(x, y) ==
        IF x = NaN \/ y = NaN THEN NaN ELSE Num(x.num * y.num)
  IN  product(ToNumber(a), ToNumber(b))

\* the characters of the strings of the model, in the order of their code units
CodeUnits ==
  " $,-.0123456789ABCDEFGHIJKLMNOPQRSTUVWXYZ[]_abcdefghijklmnopqrstuvwxyz{}"
codeUnit(ch) ==
  CHOOSE i \in 1..Len(CodeUnits) : SubSeq(CodeUnits, i, i) = ch

RECURSIVE stringLess(_, _)
\* s < t on two strings: by the first code unit that differs
stringLess(s, t) ==
  LET less(a, b) ==
        IF a # b THEN a < b
        ELSE stringLess(SubSeq(s, 2, Len(s)), SubSeq(t, 2, Len(t)))
  IN  IF t = "" THEN FALSE
      ELSE IF s = "" THEN TRUE
      ELSE less(codeUnit(SubSeq(s, 1, 1)), codeUnit(SubSeq(t, 1, 1)))

\* the primitive an operand of < is converted to: arrays and objects by
\* their toString
ToPrimitive(v) == IF isArr(v) \/ isObj(v) THEN Str(toString(v)) ELSE v

\* a < b: two strings compare as strings, anything else as numbers, and NaN
\* compares false
lessThan(a, b) ==
  LET numberLess(x, y) == x # NaN /\ y # NaN /\ x.num < y.num
      less(p, q) ==
        IF isStr(p) /\ isStr(q) THEN stringLess(p.str, q.str)
        ELSE numberLess(ToNumber(p), ToNumber(q))
  IN  less(ToPrimitive(a), ToPrimitive(b))

\* a === b: primitives by value (NaN never), arrays and objects by identity;
\* the arrays and objects compared in the model are never the same object
strictEquals(a, b) ==
  a = b /\ ~isArr(a) /\ ~isObj(a) /\ a # NaN

RECURSIVE getIn(_, _)
\* the value reached from an object along the names of a path
getIn(object, names) ==
  IF names = <<>> THEN Undefined
  ELSE IF Head(names) \notin DOMAIN object THEN Undefined
  ELSE LET value == object[Head(names)]
       IN  IF Len(names) = 1 THEN value
           ELSE IF isObj(value) THEN getIn(value.obj, Tail(names))
           ELSE Undefined

\* _.get(object, path) on a document of values: a property named path
\* itself, else the path resolved from name to name
lodashGetValue(object, path) ==
  IF path \in DOMAIN object THEN object[path]
  ELSE getIn(object, stringToPath(path))

RECURSIVE setIn(_, _, _)
\* the object with the value stored along the names of a path; a step that
\* is not an object is replaced by a new object
setIn(object, names, value) ==
  IF Len(names) = 1 THEN Assign(object, Head(names), value)
  ELSE LET child == IF Head(names) \in DOMAIN object
                         /\ isObj(object[Head(names)])
                      THEN object[Head(names)].obj ELSE <<>>
       IN  Assign(object, Head(names), Obj(setIn(child, Tail(names), value)))

\* _.set(object, path, value)
lodashSet(object, path, value) ==
  IF path \in DOMAIN object THEN Assign(object, path, value)
  ELSE setIn(object, stringToPath(path), value)

\* doc[key]: undefined for a property the object does not have
prop(object, key) == IF key \in DOMAIN object THEN object[key] ELSE Undefined

\* string.startsWith('$')
startsWithDollar(s) == Len(s) >= 1 /\ SubSeq(s, 1, 1) = "$"

\* string.replace('$', ''): the string without its first '$'
replaceDollar(s) ==
  LET at == {i \in 1..Len(s) : SubSeq(s, i, i) = "$"}
  IN  IF at = {} THEN s
      ELSE LET i == CHOOSE j \in at : \A k \in at : j <= k
           IN  SubSeq(s, 1, i - 1) \o SubSeq(s, i + 1, Len(s))

Uppercase == "ABCDEFGHIJKLMNOPQRSTUVWXYZ"
Lowercase == "abcdefghijklmnopqrstuvwxyz"

RECURSIVE convertCase(_, _, _)
\* the string with each character of alphabet from replaced by the character
\* of alphabet to at the same place
convertCase(s, from, to) ==
  IF s = "" THEN ""
  ELSE LET ch == SubSeq(s, 1, 1)
           at == {i \in 1..Len(from) : SubSeq(from, i, i) = ch}
           out == IF at = {} THEN ch
                  ELSE LET i == CHOOSE j \in at : TRUE IN SubSeq(to, i, i)
       IN  out \o convertCase(SubSeq(s, 2, Len(s)), from, to)

\* an array seen as the object of its indexes
asObject(v) ==
  IF isArr(v) THEN [key \in {numeral(i - 1) : i \in DOMAIN v.arr} |->
                      v.arr[parseDigits(key, 0).num + 1]]
  ELSE v.obj

\* a / b of two numbers: the quotient when it is an integer, else the
\* fraction itself
quotient(a, b) ==
  LET divided(x, y) ==
        IF x = NaN \/ y = NaN THEN NaN
        ELSE IF y.num # 0 /\ x.num % y.num = 0 THEN Num(x.num \div y.num)
        ELSE [ratio |-> <<x.num, y.num>>]
  IN  divided(ToNumber(a), ToNumber(b))

RECURSIVE evaluateExpression(_, _)
RECURSIVE reduceAdd(_, _, _)
RECURSIVE reduceMultiply(_, _, _)
RECURSIVE mapConcat(_, _)
RECURSIVE evaluateFields(_, _, _, _)

\* args.reduce((sum, arg) => sum + (evaluateExpression(doc, arg) || 0), 0)
reduceAdd(doc, args, sum) ==
  LET add(value) ==
        IF isThrow(value) THEN value
        ELSE reduceAdd(doc, Tail(args), plus(sum, orZero(value)))
  IN  IF args = <<>> THEN sum
      ELSE add(evaluateExpression(doc, Head(args)))

\* args.reduce((product, arg) => product * (evaluateExpression(doc, arg) || 0), 1)
reduceMultiply(doc, args, product) ==
  LET multiply(value) ==
        IF isThrow(value) THEN value
        ELSE reduceMultiply(doc, Tail(args), times(product, orZero(value)))
  IN  IF args = <<>> THEN product
      ELSE multiply(evaluateExpression(doc, Head(args)))

\* args.map(arg => String(evaluateExpression(doc, arg)), '' for null and
\* undefined).join('')
mapConcat(doc, args) ==
  LET concat(value, rest) ==
        IF isThrow(value) THEN value
        ELSE IF isThrow(rest) THEN rest
        ELSE Str((IF value \in {NullValue, Undefined} THEN ""
                  ELSE toString(value)) \o rest.str)
  IN  IF args = <<>> THEN Str("")
      ELSE concat(evaluateExpression(doc, Head(args)),
                  mapConcat(doc, Tail(args)))

\* the loop over Object.entries(expression) of an object without operator
evaluateFields(doc, object, keys, result) ==
  LET assigned(value) ==
        IF isThrow(value) THEN value
        ELSE evaluateFields(doc, object, Tail(keys),
                            Assign(result, Head(keys), value))
  IN  IF keys = <<>> THEN Obj(result)
      ELSE assigned(evaluateExpression(doc, object[Head(keys)]))

\* evaluateExpression: anything that is not an object is returned as it is,
\* a string that starts with '$' included
evaluateExpression(doc, expression) ==
  LET subtract(left, right) ==
        IF isThrow(left) THEN left
        ELSE IF isThrow(right) THEN right
        ELSE minus(orZero(left), orZero(right))
      divide(left, right) ==
        IF isThrow(left) THEN left
        ELSE IF isThrow(right) THEN right
        ELSE IF orZero(right) = Num(0) THEN Error("Division by zero")
        ELSE quotient(orZero(left), orZero(right))
      toCase(value, from, to) ==
        IF isStr(value) THEN Str(convertCase(value.str, from, to)) ELSE value
      apply(operator, args) ==
        CASE operator = "$add" ->
               IF ~isArr(args) THEN Error("$add requires an array")
               ELSE reduceAdd(doc, args.arr, Num(0))
          [] operator = "$subtract" ->
               IF ~isArr(args) \/ Len(args.arr) # 2
                 THEN Error("$subtract requires two arguments")
               ELSE subtract(evaluateExpression(doc, args.arr[1]),
                             evaluateExpression(doc, args.arr[2]))
          [] operator = "$multiply" ->
               IF ~isArr(args) THEN Error("$multiply requires an array")
               ELSE reduceMultiply(doc, args.arr, Num(1))
          [] operator = "$divide" ->
               IF ~isArr(args) \/ Len(args.arr) # 2
                 THEN Error("$divide requires two arguments")
               ELSE divide(evaluateExpression(doc, args.arr[1]),
                           evaluateExpression(doc, args.arr[2]))
          [] operator = "$concat" ->
               IF ~isArr(args) THEN Error("$concat requires an array")
               ELSE mapConcat(doc, args.arr)
          [] operator = "$toLower" ->
               toCase(evaluateExpression(doc, args), Uppercase, Lowercase)
          [] operator = "$toUpper" ->
               toCase(evaluateExpression(doc, args), Lowercase, Uppercase)
          [] operator = "$literal" -> args
          [] OTHER -> Error("Unsupported operator: " \o operator)
      evaluate(object, keys) ==
        IF keys # <<>> /\ startsWithDollar(keys[1])
          THEN apply(keys[1], object[keys[1]])
          ELSE evaluateFields(doc, object, keys, <<>>)
      evaluateObject(object) == evaluate(object, ObjectKeys(object))
  IN  IF expression = NullValue \/ ~typeofObject(expression) THEN expression
      ELSE evaluateObject(asObject(expression))

RECURSIVE JSONstringifyValue(_)
RECURSIVE stringifyElements(_)
RECURSIVE stringifyProperties(_, _, _)

\* the elements of an array in JSON: undefined is written as null
stringifyElements(a) ==
  IF a = <<>> THEN ""
  ELSE (IF Head(a) = Undefined THEN "null" ELSE JSONstringifyValue(Head(a)))
         \o (IF Len(a) = 1 THEN "" ELSE "," \o stringifyElements(Tail(a)))

\* the properties of an object in JSON: those that are undefined are left out
stringifyProperties(object, keys, sofar) ==
  IF keys = <<>> THEN sofar
  ELSE IF object[Head(keys)] = Undefined
    THEN stringifyProperties(object, Tail(keys), sofar)
  ELSE stringifyProperties(object, Tail(keys),
         (IF sofar = "" THEN "" ELSE sofar \o ",")
           \o "\"" \o Head(keys) \o "\":"
           \o JSONstringifyValue(object[Head(keys)]))

\* JSON.stringify(v) of a value that is not undefined
JSONstringifyValue(v) ==
  CASE isStr(v) -> "\"" \o v.str \o "\""
    [] isNum(v) -> numeral(v.num)
    [] isBool(v) -> IF v.bool THEN "true" ELSE "false"
    [] v = NullValue \/ v = NaN -> "null"
    [] isArr(v) -> "[" \o stringifyElements(v.arr) \o "]"
    [] isObj(v) -> "{" \o stringifyProperties(v.obj, ObjectKeys(v.obj), "")
                     \o "}"

\* groups[JSON.stringify(v)]: the property name undefined is converted to
propertyKey(v) == IF v = Undefined THEN "undefined" ELSE JSONstringifyValue(v)

\* whether a property name is an array index: the numeral of an integer >= 0
isIndexKey(key) ==
  /\ key # ""
  /\ parseDigits(key, 0) # NaN
  /\ numeral(parseDigits(key, 0).num) = key

RECURSIVE ascending(_)
\* the integers of a set in ascending order
ascending(S) ==
  IF S = {} THEN <<>>
  ELSE LET least == CHOOSE n \in S : \A m \in S : n <= m
       IN  <<least>> \o ascending(S \ {least})

\* the order in which an object enumerates its own properties, given the
\* order in which they were created: array indexes first in ascending order,
\* then the other names in creation order
ownPropertyKeys(created) ==
  LET numerals(indexes) == [i \in DOMAIN indexes |-> numeral(indexes[i])]
  IN  numerals(ascending({parseDigits(created[i], 0).num :
                            i \in {j \in DOMAIN created :
                                     isIndexKey(created[j])}}))
        \o SelectSeq(created, LAMBDA key : ~isIndexKey(key))

\* values.includes(v): primitives by value, arrays and objects by identity
includes(values, v) ==
  ~isArr(v) /\ ~isObj(v) /\ \E i \in DOMAIN values : values[i] = v

\* whether a < b is decided: not when an operand converts to NaN
comparable(a, b) ==
  LET decided(p, q) ==
        (isStr(p) /\ isStr(q)) \/ (ToNumber(p) # NaN /\ ToNumber(q) # NaN)
  IN  decided(ToPrimitive(a), ToPrimitive(b))

\* new RegExp(pattern).test(s) for a pattern of plain characters: whether s
\* contains the pattern
regexTest(pattern, s) ==
  \E i \in 1..(Len(s) + 1) :
    i + Len(pattern) - 1 <= Len(s)
      /\ SubSeq(s, i, i + Len(pattern) - 1) = pattern

\* the switch of match over the operators
matchOperator(op, docValue, opValue) ==
  CASE op = "$eq" -> strictEquals(docValue, opValue)
    [] op = "$ne" -> ~strictEquals(docValue, opValue)
    [] op = "$gt" -> lessThan(opValue, docValue)
    [] op = "$gte" -> comparable(docValue, opValue)
                        /\ ~lessThan(docValue, opValue)
    [] op = "$lt" -> lessThan(docValue, opValue)
    [] op = "$lte" -> comparable(docValue, opValue)
                        /\ ~lessThan(opValue, docValue)
    [] op = "$in" -> isArr(opValue) /\ includes(opValue.arr, docValue)
    [] op = "$nin" -> isArr(opValue) /\ ~includes(opValue.arr, docValue)
    [] op = "$exists" -> Bool(docValue # Undefined) = opValue
    [] op = "$regex" -> isStr(docValue)
                          /\ regexTest(toString(opValue), docValue.str)
    [] OTHER -> FALSE

\* $match: the documents every criterion accepts
match(docs, criteria) ==
  LET accepts(doc) ==
        \A key \in DOMAIN criteria :
          LET value == criteria[key]
          IN  IF typeofObject(value) /\ value # NullValue
                THEN \A op \in DOMAIN asObject(value) :
                       matchOperator(op, lodashGetValue(doc, key),
                                     asObject(value)[op])
                ELSE strictEquals(lodashGetValue(doc, key), value)
  IN  [ok |-> SelectSeq(docs, accepts)]

\* the own enumerable properties of a value: those of an object, the indexes
\* of an array, none for a number or a boolean
objectOf(v) == IF isArr(v) \/ isObj(v) THEN asObject(v) ELSE <<>>

RECURSIVE mapDocuments(_, _, _)
\* documents.map(callback) and documents.forEach with a result array: the
\* outputs of the callback one after the other, or what the first failing
\* call throws; f[doc] is the sequence of documents the callback gives
mapDocuments(docs, f, result) ==
  IF docs = <<>> THEN [ok |-> result]
  ELSE LET out == f[Head(docs)]
       IN  IF isThrow(out) THEN out
           ELSE mapDocuments(Tail(docs), f, result \o out.ok)

RECURSIVE projectFields(_, _, _, _)
\* the forEach of an inclusion projection over its keys
projectFields(doc, projection, keys, result) ==
  LET assign(key, evaluated) ==
        IF isThrow(evaluated) THEN evaluated
        ELSE projectFields(doc, projection, Tail(keys),
                           Assign(result, key, evaluated))
      each(key, value) ==
        IF value = Num(1)
          THEN projectFields(doc, projection, Tail(keys),
                             Assign(result, key, lodashGetValue(doc, key)))
        ELSE IF typeofObject(value)
          THEN assign(key, evaluateExpression(doc, value))
        ELSE projectFields(doc, projection, Tail(keys), result)
  IN  IF keys = <<>> THEN [ok |-> result]
      ELSE each(Head(keys), projection[Head(keys)])

RECURSIVE deleteFields(_, _)
\* delete result[key] for each key of a set
deleteFields(result, keys) ==
  IF keys = {} THEN result
  ELSE LET key == CHOOSE k \in keys : TRUE
       IN  deleteFields(Delete(result, key), keys \ {key})

\* the callback of project on one document
projectDocument(doc, projection) ==
  LET withId(included) ==
        IF isThrow(included) THEN included
        ELSE IF prop(projection, "_id") # Num(0)
                  /\ prop(doc, "_id") # Undefined
          THEN [ok |-> Assign(included.ok, "_id", doc["_id"])]
        ELSE included
      callback(isExclusion, isInclusion) ==
        IF isExclusion /\ isInclusion
          THEN Error("Cannot mix inclusion and exclusion in $project")
        ELSE IF isExclusion
          THEN [ok |-> deleteFields(doc, {key \in DOMAIN projection :
                                            projection[key] = Num(0)})]
        ELSE withId(projectFields(doc, projection, ObjectKeys(projection),
                                  <<>>))
  IN  callback(\E key \in DOMAIN projection : projection[key] = Num(0),
               \E key \in DOMAIN projection :
                 projection[key] = Num(1) \/ typeofObject(projection[key]))

\* $project: documents.map of the callback
project(docs, projection) ==
  LET mapped(result) ==
        IF isThrow(result) THEN result ELSE [ok |-> <<result.ok>>]
  IN  mapDocuments(docs,
        [doc \in Range(docs) |->
           mapped(projectDocument(doc, objectOf(projection)))], <<>>)

\* groups[groupKey][key] after one document, or what the accumulator throws
accumulate(grp, key, accumulatorOp, fieldValue) ==
  LET average(sumKey, countKey, sum, cnt) ==
        [ok |-> Assign(Assign(Assign(grp, sumKey, sum), countKey, cnt),
                       key, quotient(sum, cnt))]
      averageOf(sumKey, countKey) ==
        average(sumKey, countKey,
                plus(IF prop(grp, sumKey) = Undefined THEN Num(0)
                     ELSE grp[sumKey], orZero(fieldValue)),
                plus(IF prop(grp, sumKey) = Undefined THEN Num(0)
                     ELSE grp[countKey], Num(1)))
      pushed(array, added) ==
        [ok |-> Assign(grp, key,
                       Arr(IF added THEN Append(array, fieldValue)
                           ELSE array))]
      apply(current) ==
        CASE accumulatorOp = "$sum" ->
               [ok |-> Assign(grp, key,
                         plus(IF current = Undefined THEN Num(0) ELSE current,
                              orZero(fieldValue)))]
          [] accumulatorOp = "$avg" ->
               averageOf(key \o "_sum", key \o "_count")
          [] accumulatorOp = "$min" ->
               [ok |-> IF current = Undefined \/ lessThan(fieldValue, current)
                         THEN Assign(grp, key, fieldValue) ELSE grp]
          [] accumulatorOp = "$max" ->
               [ok |-> IF current = Undefined \/ lessThan(current, fieldValue)
                         THEN Assign(grp, key, fieldValue) ELSE grp]
          [] accumulatorOp = "$first" ->
               [ok |-> IF current = Undefined
                         THEN Assign(grp, key, fieldValue) ELSE grp]
          [] accumulatorOp = "$last" -> [ok |-> Assign(grp, key, fieldValue)]
          [] accumulatorOp = "$push" ->
               pushed(IF current = Undefined THEN <<>> ELSE current.arr,
                      fieldValue # Undefined)
          [] accumulatorOp = "$addToSet" ->
               pushed(IF current = Undefined THEN <<>> ELSE current.arr,
                      fieldValue # Undefined
                        /\ (current = Undefined
                              \/ fieldValue \notin Range(current.arr)))
          [] OTHER -> Error("Unsupported accumulator: " \o accumulatorOp)
  IN  apply(prop(grp, key))

RECURSIVE accumulateKeys(_, _, _, _)
\* the forEach over the keys of the grouping for one document
accumulateKeys(grp, doc, grouping, keys) ==
  LET advance(next) ==
        IF isThrow(next) THEN next
        ELSE accumulateKeys(next.ok, doc, grouping, Tail(keys))
      apply(key, accumulatorOp, fieldValue) ==
        IF isThrow(fieldValue) THEN fieldValue
        ELSE advance(accumulate(grp, key, accumulatorOp, fieldValue))
      resolve(key, accumulatorOp, fieldPath) ==
        apply(key, accumulatorOp,
              IF isStr(fieldPath)
                THEN lodashGetValue(doc, replaceDollar(fieldPath.str))
                ELSE evaluateExpression(doc, fieldPath))
      named(key, accumulator, names) ==
        resolve(key, IF names = <<>> THEN "undefined" ELSE names[1],
                IF names = <<>> THEN Undefined ELSE accumulator[names[1]])
      each(key, accumulator) == named(key, accumulator, ObjectKeys(accumulator))
  IN  IF keys = <<>> THEN [ok |-> grp]
      ELSE IF Head(keys) = "_id"
        THEN accumulateKeys(grp, doc, grouping, Tail(keys))
      ELSE each(Head(keys), objectOf(grouping[Head(keys)]))

RECURSIVE groupDocuments(_, _, _)
\* the forEach of group over the documents; groups is the object of the
\* groups by key, with the order in which its properties were created
groupDocuments(docs, grouping, groups) ==
  LET stored(groupKey, isNew, next) ==
        IF isThrow(next) THEN next
        ELSE groupDocuments(Tail(docs), grouping,
               [created |-> IF isNew THEN Append(groups.created, groupKey)
                            ELSE groups.created,
                of |-> Assign(groups.of, groupKey, next.ok)])
      enter(doc, id, groupKey, isNew) ==
        stored(groupKey, isNew,
              accumulateKeys(IF isNew THEN [key \in {"_id"} |-> id]
                             ELSE groups.of[groupKey],
                             doc, grouping, ObjectKeys(grouping)))
      keyed(doc, id, groupKey) ==
        enter(doc, id, groupKey, groupKey \notin DOMAIN groups.of)
      each(doc, id) ==
        IF isThrow(id) THEN id ELSE keyed(doc, id, propertyKey(id))
  IN  IF docs = <<>> THEN [ok |-> groups]
      ELSE each(Head(docs),
                evaluateExpression(Head(docs), prop(grouping, "_id")))

\* $group: Object.values of the groups
group(docs, grouping) ==
  LET values(result, keys) ==
        [ok |-> [i \in DOMAIN keys |-> result.ok.of[keys[i]]]]
      objectValues(result) ==
        IF isThrow(result) THEN result
        ELSE values(result, ownPropertyKeys(result.ok.created))
  IN  objectValues(groupDocuments(docs, objectOf(grouping),
                                  [created |-> <<>>, of |-> <<>>]))

\* a === b for the sort values of the documents at positions i and j: an
\* array or an object is identical only to itself
sameValue(i, j, a, b) ==
  a = b /\ a # NaN /\ (i = j \/ ~(isArr(a) \/ isObj(a)))

RECURSIVE compare(_, _, _, _, _)
\* the comparator of sort on the documents at positions i and j: the loop
\* over Object.entries(sortOptions)
compare(docs, i, j, sortOptions, fields) ==
  LET ordered(direction, valueA, valueB) ==
        IF sameValue(i, j, valueA, valueB)
          THEN compare(docs, i, j, sortOptions, Tail(fields))
        ELSE IF valueA = Undefined
          THEN (IF direction = Num(1) THEN 0 - 1 ELSE 1)
        ELSE IF valueB = Undefined
          THEN (IF direction = Num(1) THEN 1 ELSE 0 - 1)
        ELSE IF direction = Num(1)
          THEN (IF lessThan(valueA, valueB) THEN 0 - 1 ELSE 1)
        ELSE (IF lessThan(valueB, valueA) THEN 0 - 1 ELSE 1)
  IN  IF fields = <<>> THEN 0
      ELSE ordered(sortOptions[Head(fields)],
                   lodashGetValue(docs[i], Head(fields)),
                   lodashGetValue(docs[j], Head(fields)))

\* whether the comparator is a consistent comparison function for the
\* documents: equality is reflexive, symmetric and transitive, and less-than
\* and greater-than are transitive
consistentComparator(docs, sortOptions) ==
  LET consistent(c) ==
        /\ \A i \in DOMAIN docs : c[i, i] = 0
        /\ \A i, j \in DOMAIN docs : c[i, j] = 0 => c[j, i] = 0
        /\ \A i, j, k \in DOMAIN docs :
             /\ (c[i, j] = 0 /\ c[j, k] = 0) => c[i, k] = 0
             /\ (c[i, j] < 0 /\ c[j, k] < 0) => c[i, k] < 0
             /\ (c[i, j] > 0 /\ c[j, k] > 0) => c[i, k] > 0
  IN  consistent([i \in DOMAIN docs, j \in DOMAIN docs |->
                    compare(docs, i, j, sortOptions, ObjectKeys(sortOptions))])

\* the documents in the order of a consistent comparator, documents that
\* compare equal in the order they have in the array
stableSort(docs, sortOptions) ==
  LET first(c, i, j) == c < 0 \/ (c = 0 /\ i < j)
      before(i, j) ==
        first(compare(docs, i, j, sortOptions, ObjectKeys(sortOptions)), i, j)
      rank(i) == 1 + Cardinality({j \in DOMAIN docs : before(j, i)})
  IN  [r \in DOMAIN docs |-> docs[CHOOSE i \in DOMAIN docs : rank(i) = r]]

RECURSIVE arrangements(_)
\* the arrangements of a set of positions
arrangements(positions) ==
  IF positions = {} THEN {<<>>}
  ELSE UNION {{<<i>> \o rest : rest \in arrangements(positions \ {i})} :
                i \in positions}

\* the arrangements of an array
permutations(docs) ==
  {[r \in DOMAIN docs |-> docs[p[r]]] : p \in arrangements(DOMAIN docs)}

\* $sort: what [...documents].sort(comparator) may return.  Array.prototype.sort
\* is stable for a consistent comparator; for any other comparator the
\* order is implementation-defined
sort(docs, sortOptions) ==
  IF consistentComparator(docs, objectOf(sortOptions))
    THEN {[ok |-> stableSort(docs, objectOf(sortOptions))]}
    ELSE {[ok |-> arrangement] : arrangement \in permutations(docs)}

\* $limit
limit(docs, n) ==
  IF (~isNum(n) /\ n # NaN) \/ (isNum(n) /\ n.num < 0)
    THEN Error("$limit requires a positive number")
  ELSE IF n = NaN THEN [ok |-> <<>>]
  ELSE [ok |-> SubSeq(docs, 1, IF n.num < Len(docs) THEN n.num ELSE Len(docs))]

\* $skip
skip(docs, n) ==
  IF (~isNum(n) /\ n # NaN) \/ (isNum(n) /\ n.num < 0)
    THEN Error("$skip requires a positive number")
  ELSE IF n = NaN THEN [ok |-> docs]
  ELSE [ok |-> SubSeq(docs, n.num + 1, Len(docs))]

\* the callback of unwind without its two preserveNullAndEmptyArrays
\* branches
unwindDocumentDropping(doc, fieldPath, preserveNullAndEmptyArrays, includeArrayIndex) ==
  LET indexed(newDoc, index) ==
        IF falsy(includeArrayIndex) THEN newDoc
        ELSE lodashSet(newDoc, toString(includeArrayIndex), Num(index - 1))
      callback(arrayValue) ==
        IF ~isArr(arrayValue) THEN <<>>
        ELSE [index \in DOMAIN arrayValue.arr |->
                indexed(lodashSet(doc, fieldPath, arrayValue.arr[index]),
                        index)]
  IN  callback(lodashGetValue(doc, fieldPath))

\* the callback of unwind on one document: the documents it pushes
unwindDocument(doc, fieldPath, preserveNullAndEmptyArrays, includeArrayIndex) ==
  LET indexed(newDoc, index) ==
        IF falsy(includeArrayIndex) THEN newDoc
        ELSE lodashSet(newDoc, toString(includeArrayIndex), Num(index - 1))
      callback(arrayValue) ==
        IF falsy(arrayValue) /\ preserveNullAndEmptyArrays
          THEN <<lodashSet(doc, fieldPath, NullValue)>>
        ELSE IF ~isArr(arrayValue) THEN <<>>
        ELSE IF Len(arrayValue.arr) = 0 /\ preserveNullAndEmptyArrays
          THEN <<lodashSet(doc, fieldPath, NullValue)>>
        ELSE [index \in DOMAIN arrayValue.arr |->
                indexed(lodashSet(doc, fieldPath, arrayValue.arr[index]),
                        index)]
  IN  callback(lodashGetValue(doc, fieldPath))

\* $unwind: options is the path, or an object with the path
unwind(docs, options) ==
  LET each(fieldPath, preserve, includeArrayIndex) ==
        mapDocuments(docs,
          [doc \in Range(docs) |->
             [ok |-> unwindDocument(doc, fieldPath, preserve,
                                    includeArrayIndex)]], <<>>)
      along(path) ==
        IF options \in {NullValue, Undefined} \/ ~isStr(path)
          THEN Error("TypeError")
        ELSE each(IF startsWithDollar(path.str)
                    THEN SubSeq(path.str, 2, Len(path.str)) ELSE path.str,
                  IF isStr(options) THEN FALSE
                  ELSE ~falsy(prop(objectOf(options),
                                   "preserveNullAndEmptyArrays")),
                  IF isStr(options) THEN Undefined
                  ELSE prop(objectOf(options), "includeArrayIndex"))
  IN  along(IF isStr(options) THEN options
            ELSE prop(objectOf(options), "path"))

\* $lookup: the joined field is always the empty array
lookup(docs, options) ==
  IF options \in {NullValue, Undefined} THEN Error("TypeError")
  ELSE IF \E key \in {"from", "localField", "foreignField", "as"} :
            falsy(prop(objectOf(options), key))
    THEN Error("$lookup requires from, localField, foreignField, and as fields")
  ELSE [ok |-> [i \in DOMAIN docs |->
                  Assign(docs[i], toString(objectOf(options)["as"]),
                         Arr(<<>>))]]

\* $count
count(docs, fieldName) ==
  IF ~isStr(fieldName) THEN Error("$count requires a string field name")
  ELSE [ok |-> <<[key \in {fieldName.str} |-> Num(Len(docs))]>>]

\* the stage names of the switch of aggregate
Stages ==
  {"$match", "$project", "$group", "$sort", "$limit", "$skip", "$unwind",
   "$lookup", "$count"}

\* one turn of the loop with a default that leaves the result as it is
runStageSkipping(result, stage) ==
  LET run(stageOperator, stageOptions) ==
        CASE stageOperator = "$match" ->
               {IF stageOptions \in {NullValue, Undefined}
                  THEN (IF result = <<>> THEN [ok |-> <<>>]
                        ELSE Error("TypeError"))
                  ELSE match(result, objectOf(stageOptions))}
          [] stageOperator = "$project" ->
               {IF stageOptions \in {NullValue, Undefined}
                  THEN (IF result = <<>> THEN [ok |-> <<>>]
                        ELSE Error("TypeError"))
                  ELSE project(result, stageOptions)}
          [] stageOperator = "$group" ->
               {IF stageOptions \in {NullValue, Undefined}
                  THEN Error("TypeError")
                  ELSE group(result, stageOptions)}
          [] stageOperator = "$sort" ->
               IF stageOptions \in {NullValue, Undefined}
                 THEN {IF Len(result) < 2 THEN [ok |-> result]
                       ELSE Error("TypeError")}
                 ELSE sort(result, stageOptions)
          [] stageOperator = "$limit" -> {limit(result, stageOptions)}
          [] stageOperator = "$skip" -> {skip(result, stageOptions)}
          [] stageOperator = "$unwind" -> {unwind(result, stageOptions)}
          [] stageOperator = "$lookup" -> {lookup(result, stageOptions)}
          [] stageOperator = "$count" -> {count(result, stageOptions)}
          [] OTHER ->
               {[ok |-> result]}
      named(names) ==
        run(IF names = <<>> THEN "undefined" ELSE names[1],
            IF names = <<>> THEN Undefined ELSE objectOf(stage)[names[1]])
  IN  IF stage \in {NullValue, Undefined} THEN {Error("TypeError")}
      ELSE named(ObjectKeys(objectOf(stage)))

\* one turn of the loop of aggregate: the results the stage may give
runStage(result, stage) ==
  LET run(stageOperator, stageOptions) ==
        CASE stageOperator = "$match" ->
               {IF stageOptions \in {NullValue, Undefined}
                  THEN (IF result = <<>> THEN [ok |-> <<>>]
                        ELSE Error("TypeError"))
                  ELSE match(result, objectOf(stageOptions))}
          [] stageOperator = "$project" ->
               {IF stageOptions \in {NullValue, Undefined}
                  THEN (IF result = <<>> THEN [ok |-> <<>>]
                        ELSE Error("TypeError"))
                  ELSE project(result, stageOptions)}
          [] stageOperator = "$group" ->
               {IF stageOptions \in {NullValue, Undefined}
                  THEN Error("TypeError")
                  ELSE group(result, stageOptions)}
          [] stageOperator = "$sort" ->
               IF stageOptions \in {NullValue, Undefined}
                 THEN {IF Len(result) < 2 THEN [ok |-> result]
                       ELSE Error("TypeError")}
                 ELSE sort(result, stageOptions)
          [] stageOperator = "$limit" -> {limit(result, stageOptions)}
          [] stageOperator = "$skip" -> {skip(result, stageOptions)}
          [] stageOperator = "$unwind" -> {unwind(result, stageOptions)}
          [] stageOperator = "$lookup" -> {lookup(result, stageOptions)}
          [] stageOperator = "$count" -> {count(result, stageOptions)}
          [] OTHER ->
               {Error("Unsupported aggregation stage: " \o stageOperator)}
      named(names) ==
        run(IF names = <<>> THEN "undefined" ELSE names[1],
            IF names = <<>> THEN Undefined ELSE objectOf(stage)[names[1]])
  IN  IF stage \in {NullValue, Undefined} THEN {Error("TypeError")}
      ELSE named(ObjectKeys(objectOf(stage)))

RECURSIVE runStages(_, _)
\* the loop of aggregate over the stages from a result on: the outcomes
runStages(result, stages) ==
  IF stages = <<>> THEN {[ok |-> result]}
  ELSE UNION {IF isThrow(r) THEN {r} ELSE runStages(r.ok, Tail(stages)) :
                r \in runStage(result, Head(stages))}

\* aggregate(documents, pipeline): what it may return or throw
aggregate(docs, pipeline) ==
  IF ~isArr(pipeline) THEN {Error("Pipeline must be an array of stages")}
  ELSE runStages(docs, pipeline.arr)

\* string.includes(text)
includesText(s, text) == regexTest(text, s)

\* the status the aggregation route answers an error with
statusOf(message) ==
  IF includesText(message, "does not exist") THEN "NotFound"
  ELSE IF includesText(message, "Unsupported") THEN "BadRequest"
  ELSE "Internal"

\* POST /api/aggregation/:collection with a pipeline in the body
aggregateRoute(collection, pipeline) ==
  /\ IF ~isArr(pipeline)
       THEN last' = [op |-> "aggregate", status |-> "BadRequest",
                     cleaned |-> FALSE, fault |-> "none",
                     collectionName |-> collection, pipeline |-> pipeline,
                     outcome |-> Error("Pipeline must be an array of stages")]
       ELSE IF collection \notin Range(dbInfo)
       THEN last' = [op |-> "aggregate", status |-> "NotFound",
                     cleaned |-> FALSE, fault |-> "none",
                     collectionName |-> collection, pipeline |-> pipeline,
                     outcome |-> Error("Collection does not exist")]
       ELSE \E outcome \in aggregate(readAllDocuments(collection), pipeline) :
              last' = [op |-> "aggregate",
                       status |-> IF isThrow(outcome)
                                    THEN statusOf(outcome.throw) ELSE "ok",
                       cleaned |-> FALSE, fault |-> "none",
                       collectionName |-> collection, pipeline |-> pipeline,
                       outcome |-> outcome]
  /\ UNCHANGED <<store, deleted, procs, snapshot>>

---------------------------------------------------------------------------
(* The aggregation route on the collections a client may have stored.       *)

\* the most documents a collection holds
MaxDocs == 2

\* the documents stored, without their _id: k with a number or absent, items
\* with an array or absent
AggDocs ==
  {doc \in UNION {[D -> {Num(1), Num(2), Arr(<<>>), Arr(<<Num(1), Num(2)>>)}] :
                    D \in SUBSET {"k", "items"}} :
     /\ "k" \in DOMAIN doc => isNum(doc["k"])
     /\ "items" \in DOMAIN doc => isArr(doc["items"])}

\* the directory of a list of documents: each in the file named by its _id,
\* the identifiers given in the order readdir lists them
dirOf(list) ==
  [id \in {ReaddirOrder[i] : i \in DOMAIN list} |->
     LET i == CHOOSE j \in DOMAIN list : ReaddirOrder[j] = id
     IN  Assign(list[i], "_id", Str(id))]

\* the order of scenario S4
Order ==
  [items |-> Arr(<<Obj([price |-> Num(10), quantity |-> Num(2)]),
                   Obj([price |-> Num(3), quantity |-> Num(5)])>>)]

\* documents whose values of k are strings and numbers that < orders in a
\* cycle: "10" < "9" as strings, "9" < 10 as numbers, and neither 10 < "10"
\* nor "10" < 10
MixedKeys ==
  [i \in 1..6 |->
     [key \in {"k"} |->
        <<Str("9"), Num(10), Str("10"), Num(1), Num(0), Str("10")>>[i]]]

AggDirs ==
  {dirOf(list) : list \in UNION {[1..n -> AggDocs] : n \in 0..MaxDocs}}
    \cup {dirOf(<<Order>>)}

\* the object { [name]: value }
property(name, value) == [key \in {name} |-> value]

\* a stage { [name]: options } and a pipeline of stages
stageOf(name, options) == Obj(property(name, options))
pipelineOf(stages) == Arr(stages)

\* pipelines that reach a stage the switch has no case for
UnknownStagePipelines ==
  {pipelineOf(<<stageOf("$foo", Obj(<<>>))>>),
   pipelineOf(<<Obj(<<>>)>>),
   pipelineOf(<<stageOf("$limit", Num(1)), stageOf("$foo", Num(1))>>),
   pipelineOf(<<stageOf("$foo", Num(1)), stageOf("$limit", Num(1))>>)}

\* pipelines that throw in a known stage before an unknown one, or have none
OtherStagePipelines ==
  {pipelineOf(<<>>),
   pipelineOf(<<stageOf("$limit", Num(0 - 1)), stageOf("$foo", Num(1))>>),
   pipelineOf(<<stageOf("$skip", Num(1)), stageOf("$count", Str("n"))>>),
   pipelineOf(<<stageOf("$match", Obj([k |-> Obj(property("$gte", Num(2)))]))>>),
   pipelineOf(<<stageOf("$lookup",
                  Obj([from |-> Str("a"), localField |-> Str("k"),
                       foreignField |-> Str("k"), as |-> Str("n")]))>>)}

\* projections that give both a 0 and a 1 or an expression
MixedProjections ==
  {Obj([k |-> Num(0), items |-> Num(1)]),
   Obj([k |-> Num(0), n |-> Obj(property("$literal", Num(1)))])}

\* inclusion projections with _id left out, set to 1 and set to 0
InclusionProjections ==
  {Obj([k |-> Num(1)]), Obj([k |-> Num(1), _id |-> Num(1)]),
   Obj([k |-> Num(1), _id |-> Num(0)])}

\* exclusion projections
ExclusionProjections == {Obj([k |-> Num(0)]), Obj([_id |-> Num(0)])}

\* groupings by a field reference, with and without an accumulator
Groupings ==
  {Obj([_id |-> Str("$k")]),
   Obj([_id |-> Str("$k"), n |-> Obj(property("$sum", Num(1)))]),
   Obj([_id |-> NullValue, n |-> Obj(property("$sum", Str("$k")))])}

\* the pipeline of scenario S4
RevenuePipeline ==
  pipelineOf(<<
    stageOf("$unwind", Str("$items")),
    stageOf("$group",
      Obj([_id |-> NullValue,
           revenue |-> Obj(property("$sum", Obj(property("$multiply",
                         Arr(<<Str("$items.price"),
                               Str("$items.quantity")>>)))))])),
    stageOf("$project",
      Obj([revenue |-> Obj(property("$round", Arr(<<Str("$revenue"), Num(2)>>)))]))>>)

\* the options of $unwind on items: the path alone, and an object with the
\* path and preserveNullAndEmptyArrays
UnwindOptions ==
  {Str("$items"), Obj([path |-> Str("$items")]),
   Obj([path |-> Str("$items"), preserveNullAndEmptyArrays |-> Bool(TRUE)]),
   Obj([path |-> Str("$items"), preserveNullAndEmptyArrays |-> Bool(FALSE)]),
   Obj([path |-> Str("$items"), preserveNullAndEmptyArrays |-> Bool(TRUE),
        includeArrayIndex |-> Str("idx")])}

\* sort specifications on k, ascending and descending
SortOptions == {Obj([k |-> Num(1)]), Obj([k |-> Num(0 - 1)])}

\* collection a with documents in it
InitAgg ==
  /\ dbInfo = <<"a">>
  /\ documents \in {[c \in {"a"} |-> dir] : dir \in AggDirs}
  /\ metadata = [c \in {"a"} |-> Cardinality(DOMAIN documents[c])]
  /\ indexFiles = <<>>
  /\ uuidCount = 0
  /\ last = [op |-> "initDB", status |-> "ok", cleaned |-> FALSE]
  /\ deleted = [c \in Colls |-> {}]
  /\ procs = <<>>
  /\ snapshot = 0

NextAgg ==
  \E c \in Colls :
    \/ \E pipeline \in UnknownStagePipelines : aggregateRoute(c, pipeline)
    \/ \E pipeline \in OtherStagePipelines : aggregateRoute(c, pipeline)
    \/ \E projection \in MixedProjections \cup InclusionProjections
                           \cup ExclusionProjections :
         aggregateRoute(c, pipelineOf(<<stageOf("$project", projection)>>))
    \/ \E grouping \in Groupings :
         aggregateRoute(c, pipelineOf(<<stageOf("$group", grouping)>>))
    \/ aggregateRoute(c, RevenuePipeline)
    \/ \E options \in UnwindOptions :
         aggregateRoute(c, pipelineOf(<<stageOf("$unwind", options)>>))
    \/ \E sortOptions \in SortOptions :
         aggregateRoute(c, pipelineOf(<<stageOf("$sort", sortOptions)>>))

SpecAgg == InitAgg /\ [][NextAgg]_vars

---------------------------------------------------------------------------
(* $sort on collections whose values of the sort key are of several types.  *)

\* the most documents of the collections sorted
MaxSorted == 3

\* the documents sorted: k with a number, a string or null, or absent
SortDocs ==
  {<<>>} \cup {[key \in {"k"} |-> v] : v \in {Num(1), Str("x"), NullValue}}

SortDirs ==
  {dirOf(list) : list \in UNION {[1..n -> SortDocs] : n \in 0..MaxSorted}}
    \cup {dirOf(MixedKeys)}

InitSort ==
  /\ dbInfo = <<"a">>
  /\ documents \in {[c \in {"a"} |-> dir] : dir \in SortDirs}
  /\ metadata = [c \in {"a"} |-> Cardinality(DOMAIN documents[c])]
  /\ indexFiles = <<>>
  /\ uuidCount = 0
  /\ last = [op |-> "initDB", status |-> "ok", cleaned |-> FALSE]
  /\ deleted = [c \in Colls |-> {}]
  /\ procs = <<>>
  /\ snapshot = 0

NextSort ==
  \E c \in Colls, sortOptions \in SortOptions :
    aggregateRoute(c, pipelineOf(<<stageOf("$sort", sortOptions)>>))

SpecSort == InitSort /\ [][NextSort]_vars

---------------------------------------------------------------------------
(* An index built from a list of documents in one createIndex call, and the *)
(* same list fed document by document to updateIndexForDocument.            *)

BuildIds == {"d1", "d2", "u1", "u2"}

\* the documents of a list: an _id, and f with a value or absent
BuildDocs ==
  {[k \in {"_id"} |-> i] : i \in BuildIds}
    \cup {[k \in Fields |-> IF k = "_id" THEN i ELSE v] :
            i \in BuildIds, v \in Vals}

\* the lists of documents with distinct identifiers
BuildLists ==
  {list \in UNION {[1..n -> BuildDocs] : n \in 0..MaxList} :
     \A i \in DOMAIN list : \A j \in DOMAIN list :
       i # j => list[i]["_id"] # list[j]["_id"]}

\* one call of updateIndexForDocument, for the next document of the list
buildStep ==
  /\ procs.todo # <<>>
  /\ indexFiles' = updateIndexForDocument(indexFiles, "a", "f",
                                          Head(procs.todo))
  /\ procs' = [procs EXCEPT !.todo = Tail(@)]
  /\ UNCHANGED <<dbInfo, metadata, documents, uuidCount, last, deleted,
                 snapshot>>

\* collection a holding the documents of a list, an index on f with an empty
\* map, and the list still to be fed to updateIndexForDocument
InitBuild ==
  /\ dbInfo = <<"a">>
  /\ procs \in {[documents |-> list, todo |-> list] : list \in BuildLists}
  /\ documents = [c \in {"a"} |->
                    [id \in {doc["_id"] : doc \in Range(procs.documents)} |->
                       CHOOSE doc \in Range(procs.documents) : doc["_id"] = id]]
  /\ metadata = [c \in {"a"} |-> Len(procs.documents)]
  /\ indexFiles = createIndex(<<>>, "a", "f", <<>>)
  /\ uuidCount = 0
  /\ last = [op |-> "createIndex", status |-> "ok", cleaned |-> FALSE]
  /\ deleted = [c \in Colls |-> {}]
  /\ snapshot = 0

NextBuild == buildStep

SpecBuild == InitBuild /\ [][NextBuild]_vars

---------------------------------------------------------------------------
(* Properties of the stored state *)

\* the index files that belong to a collection
indexesOf(collectionName) ==
  {file \in DOMAIN indexFiles :
     indexFiles[file].collectionName = collectionName}

\* the keys of the buckets of an index map that hold an identifier
bucketsOf(index, id) == {key \in DOMAIN index : id \in Range(index[key])}

\* the identifiers an index map holds
idsOf(index) == UNION {Range(index[key]) : key \in DOMAIN index}

\* C1: for every index (C, F) and every live document D of C whose value at F
\* is not missing, D's identifier is in exactly one bucket of the index, the
\* one keyed by the JSON encoding of D.F.
C1_PresentValuesIndexed ==
  \A c \in Range(dbInfo) : \A file \in indexesOf(c) :
    \A k \in DOMAIN documents[c] :
      LET D == documents[c][k]
          value == Get(D, indexFiles[file].field)
      IN  value # Missing =>
            bucketsOf(indexFiles[file].index, Get(D, "_id"))
              = {JSONstringify(value)}

\* C2: a live document D of C with no value at F has its identifier under no
\* key of the index (C, F).
C2_MissingValuesNotIndexed ==
  \A c \in Range(dbInfo) : \A file \in indexesOf(c) :
    \A k \in DOMAIN documents[c] :
      LET D == documents[c][k]
      IN  Get(D, indexFiles[file].field) = Missing =>
            bucketsOf(indexFiles[file].index, Get(D, "_id")) = {}

\* C3: documentCount of every collection equals the number of its live
\* documents (document files).
C3_DocumentCountIsLiveCount ==
  \A c \in Range(dbInfo) :
    metadata[c] = Cardinality(DOMAIN documents[c])

\* C4: insertDocument(C, doc) with the identifier of a live document of C
\* fails with Duplicate and leaves the documents, documentCount and indexes
\* of C unchanged.
C4_DuplicateInsertRejected ==
  [][\A c \in Colls : \A doc \in InsertDocs :
       ( /\ c \in Range(dbInfo)
         /\ Get(doc, "_id") \in DOMAIN documents[c]
         /\ insertDocument(c, doc) )
       => /\ last'.status = "Duplicate"
          /\ UNCHANGED <<documents, metadata, indexFiles>>]_vars

\* C5: no index of C holds the identifier of a document that was deleted from
\* C and not inserted again (and that no live document of C carries).
C5_NoDeletedIdentifiers ==
  \A c \in Range(dbInfo) : \A file \in indexesOf(c) :
    \A id \in idsOf(indexFiles[file].index) :
      ~ ( /\ id \in deleted[c]
          /\ id \notin DOMAIN documents[c]
          /\ \A k \in DOMAIN documents[c] :
               Get(documents[c][k], "_id") # id )

\* C6: updateDocument(C, id, updateSpec) leaves the _id of the stored document
\* as it was, for every updateSpec.
C6_UpdateKeepsId ==
  [][\A c \in Colls : \A id \in AllIds : \A update \in Updates :
       ( /\ c \in Range(dbInfo)
         /\ id \in DOMAIN documents[c]
         /\ updateDocument(c, id, update) )
       => Get(documents'[c][id], "_id") = Get(documents[c][id], "_id")]_vars

\* C7: no two live documents of one collection have equal _id values.
C7_IdentifiersUnique ==
  \A c \in Range(dbInfo) :
    \A k1 \in DOMAIN documents[c] : \A k2 \in DOMAIN documents[c] :
      k1 # k2 =>
        Get(documents[c][k1], "_id") # Get(documents[c][k2], "_id")

\* C8: no index maps a value-key to an empty identifier list.
C8_NoEmptyBuckets ==
  \A file \in DOMAIN indexFiles :
    \A key \in DOMAIN indexFiles[file].index :
      indexFiles[file].index[key] # <<>>

\* C8 witness: a document mutation has just emptied a bucket and removed it,
\* and the index it was removed from still has buckets.
C8_Witness ==
  /\ last.cleaned
  /\ last.op \in {"updateDocument", "deleteDocument"}
  /\ \E file \in DOMAIN indexFiles : DOMAIN indexFiles[file].index # {}

\* both requests have returned successfully
BothDone == \A p \in Procs : procs[p].pc = "done" /\ procs[p].status = "ok"

\* C9: two insertDocument calls with distinct identifiers run concurrently on
\* one collection: once both have completed, documentCount has increased by
\* exactly 2.
C9_ConcurrentInsertsCounted ==
  ( /\ BothDone
    /\ \A p \in Procs : procs[p].op = "insertDocument"
    /\ procs["p1"].id # procs["p2"].id )
  => metadata["a"] = snapshot + 2

\* C10: two mutations (insertDocument/updateDocument) of different documents
\* run concurrently on a collection with an index on f: once both have
\* completed, the index holds both documents' identifiers at their current
\* keys.
C10_ConcurrentMutationsIndexed ==
  ( /\ BothDone
    /\ procs["p1"].id # procs["p2"].id )
  => \A p \in Procs :
       LET D == documents["a"][procs[p].id]
           key == JSONstringify(Get(D, "f"))
           index == indexFiles[getIndexFilePath("a", "f")].index
       IN  key \in DOMAIN index /\ Get(D, "_id") \in Range(index[key])

C12_CreateCollectionContract ==
  [][\A name \in Colls :
       (last'.op = "createCollection" /\ createCollection(name)) =>
         IF name \in Range(dbInfo)
           THEN /\ last'.status = "AlreadyExists"
                /\ UNCHANGED <<dbInfo, metadata, documents, indexFiles>>
           ELSE /\ last'.status = "ok"
                /\ dbInfo' = Append(dbInfo, name)
                /\ metadata'[name] = 0
                /\ documents'[name] = <<>>]_vars

\* C12 witness: createCollection has just been refused for a collection that
\* has documents and an index.
C12_Witness ==
  /\ last.op = "createCollection"
  /\ last.status = "AlreadyExists"
  /\ \E c \in Range(dbInfo) :
       documents[c] # <<>> /\ collectionIndexFiles(indexFiles, c) # {}

\* C13: deleteDocument(C, id) when C has no live document stored under id fails
\* with NotFound and leaves the documents, documentCount and indexes of C as
\* they were.
C13_DeleteAbsentDocument ==
  [][\A c \in Colls : \A id \in AllIds :
       ( /\ last'.op = "deleteDocument"
         /\ c \in Range(dbInfo)
         /\ id \notin DOMAIN documents[c]
         /\ deleteDocument(c, id) )
       => /\ last'.status = "NotFound"
          /\ UNCHANGED <<documents, metadata, indexFiles>>]_vars

\* C13 witness: deleteDocument has just failed with NotFound on a collection
\* that has other documents and an index with entries.
C13_Witness ==
  /\ last.op = "deleteDocument"
  /\ last.status = "NotFound"
  /\ \E c \in Range(dbInfo) :
       /\ documents[c] # <<>>
       /\ \E file \in collectionIndexFiles(indexFiles, c) :
            DOMAIN indexFiles[file].index # {}

\* C14: insertDocument(C, D) followed by deleteDocument(C, D.id) leaves the
\* documents, documentCount and index maps of C equal to their state before
\* the insert.
C14_InsertDeleteRoundTrip ==
  [][\A c \in Colls : \A doc \in InsertDocs :
       (c \in Range(dbInfo) /\ insertDocument(c, doc)) =>
         LET outcome == deleteOutcome(documents', metadata', indexFiles', c,
                                      last'.id)
         IN  <<outcome.documents[c], outcome.metadata[c], outcome.indexFiles>>
               = collectionState(c)]_vars

\* C15: for every list of documents with distinct identifiers, the index map
\* createIndex(C, F, documents) produces equals the map obtained from an
\* existing index with an empty map by calling updateIndexForDocument(C, F, d)
\* for each document d of the list in order.
C15_BulkEqualsIncremental ==
  procs.todo = <<>> =>
    indexFiles[getIndexFilePath("a", "f")].index
      = createIndex(<<>>, "a", "f", procs.documents)
          [getIndexFilePath("a", "f")].index

\* C15 witness: a list has been fed whole, two of its documents share a value
\* of f and one has no f.
C15_Witness ==
  /\ procs.todo = <<>>
  /\ \E key \in DOMAIN indexFiles[getIndexFilePath("a", "f")].index :
       Len(indexFiles[getIndexFilePath("a", "f")].index[key]) >= 2
  /\ \E doc \in Range(procs.documents) : "f" \notin DOMAIN doc

\* C16: on a collection with an index on F, after updateDocument changes a
\* document's F from v1 to v2 with $set, findDocuments({F: v2}) includes the
\* document and findDocuments({F: v1}) does not.
C16_UpdateKeepsQueriesCorrect ==
  [][(last'.op = "updateDocument" /\ last'.status = "ok") =>
       \A c \in Colls : \A id \in {last'.id} : \A v1 \in Vals : \A v2 \in Vals :
         ( /\ c \in Range(dbInfo)
           /\ getIndexFilePath(c, "f") \in DOMAIN indexFiles
           /\ id \in DOMAIN documents[c]
           /\ Get(documents[c][id], "f") = v1
           /\ v1 # v2
           /\ updateDocument(c, id, [set |-> [k \in {"f"} |-> v2],
                                     unset |-> {}]) )
         => /\ documents'[c][id] \in
                 Range(findResult(documents'[c], indexFiles', c,
                                  <<<<"f", [value |-> v2]>>>>, "none"))
            /\ documents'[c][id] \notin
                 Range(findResult(documents'[c], indexFiles', c,
                                  <<<<"f", [value |-> v1]>>>>, "none"))]_vars

\* C16 witness: on a collection with an index on f, updateDocument has just
\* given f of a document a new value in place of another with $set.
C16_Witness ==
  /\ last.op = "updateDocument"
  /\ last.status = "ok"
  /\ "f" \in last.changed
  /\ getIndexFilePath(last.collectionName, "f") \in DOMAIN indexFiles

\* C17: if listing or reading the indexes of C fails during insertDocument,
\* updateDocument or findDocuments, the operation reports an error; it never
\* completes successfully having skipped the index update or index lookup.
C17_NoErrorSwallowed ==
  [][\A c \in Colls :
       /\ \A doc \in FaultDocs :
            (c \in Range(dbInfo) /\ insertDocumentWith(c, doc, "listIndexes"))
              => last'.status # "ok"
       /\ \A id \in FindIds : \A update \in FaultUpdates :
            ( /\ c \in Range(dbInfo)
              /\ id \in DOMAIN documents[c]
              /\ updateDocumentWith(c, id, update, "listIndexes") )
              => last'.status # "ok"
       /\ \A query \in FaultQueries :
            (c \in Range(dbInfo) /\ findDocumentsWith(c, query, "getIndex"))
              => last'.status # "ok"]_vars

\* C18: if the index update fails after the document write in insertDocument
\* or updateDocument, the operation fails with an error and the document
\* write is not rolled back: the written document stays live and, for insert,
\* documentCount stays incremented.
C18_FailedIndexUpdateKeepsWrite ==
  [][\A c \in Colls :
       /\ \A doc \in FaultDocs :
            ( /\ last'.op = "insertDocument"
              /\ last'.fault = "updateIndexForDocument"
              /\ c \in Range(dbInfo)
              /\ insertDocumentWith(c, doc, "updateIndexForDocument") )
              => /\ last'.status = "Internal"
                 /\ last'.id \in DOMAIN documents'[c]
                 /\ documents'[c][last'.id] = Assign(doc, "_id", last'.id)
                 /\ metadata'[c] = metadata[c] + 1
       /\ \A id \in FindIds : \A update \in FaultUpdates :
            ( /\ last'.op = "updateDocument"
              /\ last'.fault = "updateIndexForDocument"
              /\ c \in Range(dbInfo)
              /\ id \in DOMAIN documents[c]
              /\ updateDocumentWith(c, id, update, "updateIndexForDocument") )
              => /\ last'.status = "Internal"
                 /\ documents'[c][id] = applyUpdate(documents[c][id], update)
                 /\ metadata'[c] = metadata[c]]_vars

\* C18 witness: an insertDocument has just failed in its index update, and the
\* document it wrote is live with a value of f the index does not hold it
\* under.
C18_Witness ==
  /\ last.op = "insertDocument"
  /\ last.status = "Internal"
  /\ last.id \in DOMAIN documents[last.collectionName]
  /\ LET doc == documents[last.collectionName][last.id]
         index == indexFiles[getIndexFilePath(last.collectionName, "f")].index
     IN  /\ Get(doc, "f") # Missing
         /\ bucketsOf(index, last.id) = {}

\* findDocuments has just returned for a query of one key
foundOne ==
  /\ last.op = "findDocuments"
  /\ last.status = "ok"
  /\ Len(last.query) = 1

\* the live documents of the collection of the last operation
liveDocuments == Range(readAllDocuments(last.collectionName))

\* the value of a document at a dot-separated path
valueAt(doc, path) == baseGet(doc, stringToPath(path))

\* C19: findDocuments({k: {$in: A}}) returns exactly the live documents whose
\* value at k is an element of A, {k: {$nin: A}} exactly those whose value is
\* not in A, and {k: {$exists: b}} exactly those for which (the value at k is
\* not missing) equals b.
C19_MembershipAndPresence ==
  ( /\ foundOne
    /\ isOperators(last.query[1][2])
    /\ Len(last.query[1][2].operators) = 1
    /\ last.query[1][2].operators[1][1]
         \in MembershipOperators \cup {"$exists"} )
  => LET key == last.query[1][1]
         op == last.query[1][2].operators[1][1]
         operand == last.query[1][2].operators[1][2]
     IN  Range(last.result) =
           CASE op = "$in" ->
                  {doc \in liveDocuments :
                     valueAt(doc, key) \in Range(operand)}
             [] op = "$nin" ->
                  {doc \in liveDocuments :
                     valueAt(doc, key) \notin Range(operand)}
             [] op = "$exists" ->
                  {doc \in liveDocuments :
                     (valueAt(doc, key) # Missing) = operand}

\* C20: a bare-value criterion on key k matches a document iff the value
\* obtained by resolving k as a dot-separated path in the document equals the
\* criterion; {"a.b": v} matches a document whose nested field a.b equals v.
C20_BareValueResolvesPath ==
  (foundOne /\ ~isOperators(last.query[1][2]))
  => Range(last.result) =
       {doc \in liveDocuments :
          valueAt(doc, last.query[1][1]) = last.query[1][2].value}

\* the last operation was a findDocuments whose criterion names an operator
\* the engine has no case for
foundUnknown ==
  /\ last.op = "findDocuments"
  /\ Len(last.query) = 1
  /\ isOperators(last.query[1][2])
  /\ \E j \in DOMAIN last.query[1][2].operators :
       last.query[1][2].operators[j][1] \in UnknownOperators

\* C21: a findDocuments query with an unknown operator on a field returns the
\* empty result and raises no error, for every collection state, whether or
\* not the field is indexed.
C21_UnknownOperatorEmpty ==
  foundUnknown => (last.status = "ok" /\ last.result = <<>>)

\* C21 witness: such a query has run on an indexed field of a collection that
\* holds a document whose value on the field equals the operand.
C21_Witness ==
  /\ foundUnknown
  /\ last.query[1][1] = "f"
  /\ getIndexFilePath(last.collectionName, "f") \in DOMAIN indexFiles
  /\ \E doc \in liveDocuments :
       Get(doc, "f") = last.query[1][2].operators[1][2]

\* C22: updateDocument with $set {"a.b": v} sets the nested field b inside
\* object a to v, so that resolving the path a.b step by step in the stored
\* document yields v, and creates no top-level key named "a.b".
C22_SetAssignsDotPath ==
  [][\A c \in Colls, id \in FindIds, path \in SetPaths, v \in Vals :
       (id \in DOMAIN documents[c] /\ updateDocument(c, id, setPath(path, v)))
       => /\ valueAt(documents'[c][id], path) = v
          /\ path \notin DOMAIN documents'[c][id]]_vars

\* the aggregation route has just answered for a pipeline of the one stage
\* named
ranStage(name) ==
  /\ last.op = "aggregate"
  /\ isArr(last.pipeline)
  /\ Len(last.pipeline.arr) = 1
  /\ isObj(last.pipeline.arr[1])
  /\ DOMAIN last.pipeline.arr[1].obj = {name}

\* the options of that stage
ranOptions(name) == last.pipeline.arr[1].obj[name]

\* the documents the route read from the collection
readDocuments == readAllDocuments(last.collectionName)

\* the name of a stage: its first key
stageName(stage) ==
  LET names == ObjectKeys(objectOf(stage))
  IN  IF names = <<>> THEN "undefined" ELSE names[1]

\* the places of a pipeline whose stage has a name aggregate has no case
\* for and which the stages before it let the documents reach
reachedUnknown(docs, stages) ==
  {i \in DOMAIN stages :
     /\ stageName(stages[i]) \notin Stages
     /\ \A r \in runStages(docs, SubSeq(stages, 1, i - 1)) : ~isThrow(r)}

\* C23: aggregate raises an unsupported-stage error, and returns no result,
\* for every pipeline that reaches a stage whose name is not one of $match,
\* $project, $group, $sort, $limit, $skip, $unwind, $lookup, $count.
C23_UnknownStageRaises ==
  (last.op = "aggregate" /\ isArr(last.pipeline))
  => \A i \in reachedUnknown(readDocuments, last.pipeline.arr) :
       /\ isThrow(last.outcome)
       /\ \E name \in {stageName(last.pipeline.arr[j]) :
                         j \in DOMAIN last.pipeline.arr} \ Stages :
            last.outcome.throw = "Unsupported aggregation stage: " \o name
       /\ last.status = "BadRequest"

\* C23 witness: a pipeline with a $limit stage before a stage named $foo has
\* run on a collection with documents, and raised.
C23_Witness ==
  /\ last.op = "aggregate"
  /\ isArr(last.pipeline)
  /\ Len(last.pipeline.arr) = 2
  /\ stageName(last.pipeline.arr[1]) = "$limit"
  /\ reachedUnknown(readDocuments, last.pipeline.arr) = {2}
  /\ readDocuments # <<>>
  /\ isThrow(last.outcome)

\* C24: a $project stage whose projection has both a value 0 and a value 1
\* or an expression raises an error for every input array, the empty array
\* included.
C24_MixedProjectionRaises ==
  (ranStage("$project") /\ ranOptions("$project") \in MixedProjections)
  => isThrow(last.outcome)

\* the properties of a document that JSON keeps: those that are not undefined
defined(doc) == [key \in {k \in DOMAIN doc : doc[k] # Undefined} |-> doc[key]]

\* C25: in an inclusion $project, _id is copied to the output by default, and
\* a projection that sets _id to 0 alongside included fields produces the
\* documents with the included fields and without _id.
C25_InclusionAndId ==
  (ranStage("$project") /\ ranOptions("$project") \in InclusionProjections)
  => /\ ~isThrow(last.outcome)
     /\ Len(last.outcome.ok) = Len(readDocuments)
     /\ \A i \in DOMAIN readDocuments :
          LET projection == ranOptions("$project").obj
              kept == {key \in DOMAIN projection : projection[key] = Num(1)}
                        \cup (IF prop(projection, "_id") = Num(0) THEN {}
                              ELSE {"_id"})
              doc == readDocuments[i]
          IN  defined(last.outcome.ok[i])
                = [key \in kept \cap DOMAIN doc |-> doc[key]]

\* the values of a field in the documents, in the order of first encounter
RECURSIVE firstEncounters(_, _, _)
firstEncounters(docs, path, seen) ==
  IF docs = <<>> THEN seen
  ELSE LET value == lodashGetValue(Head(docs), path)
       IN  firstEncounters(Tail(docs), path,
             IF value \in Range(seen) THEN seen ELSE Append(seen, value))

\* the route has just answered for a $group whose _id is the reference "$k"
groupedByReference ==
  /\ ranStage("$group")
  /\ isObj(ranOptions("$group"))
  /\ prop(ranOptions("$group").obj, "_id") = Str("$k")

\* C26: $group with _id given as the field reference "$k" has exactly one
\* group per distinct value of k among the input documents, and each
\* group's _id is that value.
C26_GroupByFieldReference ==
  groupedByReference
  => /\ ~isThrow(last.outcome)
     /\ Len(last.outcome.ok)
          = Cardinality({lodashGetValue(doc, "k") : doc \in Range(readDocuments)})
     /\ {prop(grp, "_id") : grp \in Range(last.outcome.ok)}
          = {lodashGetValue(doc, "k") : doc \in Range(readDocuments)}

\* C27: the groups output by $group appear in the order in which their group
\* keys are first encountered in the input, numeric keys such as 2 then 1
\* included.
C27_GroupsInFirstEncounterOrder ==
  groupedByReference
  => /\ ~isThrow(last.outcome)
     /\ [i \in DOMAIN last.outcome.ok |-> prop(last.outcome.ok[i], "_id")]
          = firstEncounters(readDocuments, "k", <<>>)

\* C28: scenario S4: for the order with items [{price: 10, quantity: 2},
\* {price: 3, quantity: 5}] the pipeline $unwind, $group with $sum of
\* $multiply, $project with $round completes without error and yields a
\* single document with revenue = 35.
C28_RevenueScenario ==
  ( /\ last.op = "aggregate"
    /\ last.pipeline = RevenuePipeline
    /\ documents[last.collectionName] = dirOf(<<Order>>) )
  => /\ ~isThrow(last.outcome)
     /\ Len(last.outcome.ok) = 1
     /\ prop(last.outcome.ok[1], "revenue") = Num(35)

\* the route has just answered for an $unwind of items
unwound ==
  /\ ranStage("$unwind")
  /\ ranOptions("$unwind") \in UnwindOptions

\* whether the options of the $unwind ask to preserve null and empty arrays
preserving ==
  /\ isObj(ranOptions("$unwind"))
  /\ prop(ranOptions("$unwind").obj, "preserveNullAndEmptyArrays") = Bool(TRUE)

\* C29: $unwind on a document whose field is missing, or an empty array:
\* without preserveNullAndEmptyArrays the document is dropped from the
\* output; with preserveNullAndEmptyArrays true exactly one copy of the
\* document is emitted, with the field set to null.
C29_UnwindMissingOrEmpty ==
  unwound
  => /\ ~isThrow(last.outcome)
     /\ \A doc \in Range(readDocuments) :
          prop(doc, "items") \in {Undefined, Arr(<<>>)}
          => LET copies == {i \in DOMAIN last.outcome.ok :
                              last.outcome.ok[i]["_id"] = doc["_id"]}
             IN  IF preserving
                   THEN /\ Cardinality(copies) = 1
                        /\ \A i \in copies :
                             last.outcome.ok[i] = Assign(doc, "items", NullValue)
                   ELSE copies = {}

\* C29 witness: an $unwind that preserves has run on a collection with a
\* document without items and a document whose items is the empty array.
C29_Witness ==
  /\ unwound
  /\ preserving
  /\ \E doc \in Range(readDocuments) : prop(doc, "items") = Undefined
  /\ \E doc \in Range(readDocuments) : prop(doc, "items") = Arr(<<>>)
  /\ Len(last.outcome.ok) = 2

\* C30: $sort is stable: for every input array and sort specification, two
\* documents that are equal on all sort keys appear in the output in the
\* same relative order as in the input.
C30_SortStable ==
  ranStage("$sort")
  => /\ ~isThrow(last.outcome)
     /\ LET fields == DOMAIN ranOptions("$sort").obj
            place(doc) == CHOOSE r \in DOMAIN last.outcome.ok :
                            last.outcome.ok[r] = doc
        IN  \A i, j \in DOMAIN readDocuments :
              ( /\ i < j
                /\ \A field \in fields :
                     lodashGetValue(readDocuments[i], field)
                       = lodashGetValue(readDocuments[j], field) )
              => place(readDocuments[i]) < place(readDocuments[j])

---------------------------------------------------------------------------
(* deleteDocument step by step: every await is a point where the handler    *)
(* may be interrupted for good (the process crashes).                       *)

\* the handler that runs the delete
Deleters == {"p1"}

\* deleteDocument up to its first await: getDBInfo and the collection check
deleteBegin(p, collectionName, id) ==
  /\ procs[p].pc = "idle"
  /\ IF collectionName \notin Range(dbInfo)
       THEN procs' = [procs EXCEPT ![p] =
              [Frame("done", "deleteDocument", collectionName, id, <<>>, <<>>)
                 EXCEPT !.status = "NotFound"]]
       ELSE procs' = [procs EXCEPT ![p] =
              Frame("delPathExists", "deleteDocument", collectionName, id,
                    <<>>, <<>>)]
  /\ UNCHANGED <<store, last, deleted, snapshot>>

\* if (!await fs.pathExists(documentFile)) throw
delPathExists(p) ==
  /\ procs[p].pc = "delPathExists"
  /\ IF procs[p].id \notin DOMAIN documents[procs[p].collectionName]
       THEN Finish(p, "NotFound")
       ELSE Goto(p, "rdfiReaddir")
  /\ UNCHANGED <<store, last, deleted, snapshot>>

\* removeDocumentFromIndexes: const files = await fs.readdir(INDEXES_DIR),
\* filtered for the collection; Promise.all starts a callback for each
rdfiReaddir(p) ==
  /\ procs[p].pc = "rdfiReaddir"
  /\ procs' = [procs EXCEPT
       ![p].fields = collectionIndexFiles(indexFiles, procs[p].collectionName),
       ![p].index = <<>>,
       ![p].pc = "rdfiFiles"]
  /\ UNCHANGED <<store, last, deleted, snapshot>>

\* the callback of one index file: const indexData = await fs.readJson(filePath)
\* and the identifier filtered out in memory; a file that did not change is
\* not written
rdfiReadJson(p, file) ==
  /\ procs[p].pc = "rdfiFiles"
  /\ file \in procs[p].fields
  /\ file \in DOMAIN indexFiles
  /\ procs' = [procs EXCEPT
       ![p].fields = @ \ {file},
       ![p].index =
          IF removedIndex(indexFiles[file].index, procs[p].id)
               # indexFiles[file].index
            THEN Put(@, file,
                   [indexFiles[file] EXCEPT
                      !.index = removedIndex(@, procs[p].id)])
            ELSE @]
  /\ UNCHANGED <<store, last, deleted, snapshot>>

\* the callback of one index file: await fs.writeJson(filePath, indexData)
rdfiWriteJson(p, file) ==
  /\ procs[p].pc = "rdfiFiles"
  /\ file \in DOMAIN procs[p].index
  /\ indexFiles' = Put(indexFiles, file, procs[p].index[file])
  /\ procs' = [procs EXCEPT ![p].index = Remove(@, file)]
  /\ UNCHANGED <<dbInfo, metadata, documents, uuidCount, last, deleted,
                 snapshot>>

\* Promise.all resolves when every callback has returned
rdfiResolved(p) ==
  /\ procs[p].pc = "rdfiFiles"
  /\ procs[p].fields = {}
  /\ DOMAIN procs[p].index = {}
  /\ Goto(p, "delUnlink")
  /\ UNCHANGED <<store, last, deleted, snapshot>>

\* await fs.unlink(documentFile)
delUnlink(p) ==
  /\ procs[p].pc = "delUnlink"
  /\ documents' = [documents EXCEPT ![procs[p].collectionName] =
                     Remove(@, procs[p].id)]
  /\ Goto(p, "delReadMetadata")
  /\ UNCHANGED <<dbInfo, metadata, indexFiles, uuidCount, last, deleted,
                 snapshot>>

\* const metadata = await fs.readJson(metadataFile); metadata.documentCount--
delReadMetadata(p) ==
  /\ procs[p].pc = "delReadMetadata"
  /\ procs' = [procs EXCEPT
       ![p].metadata = metadata[procs[p].collectionName] - 1,
       ![p].pc = "delWriteMetadata"]
  /\ UNCHANGED <<store, last, deleted, snapshot>>

\* await fs.writeJson(metadataFile, metadata), and the handler returns
delWriteMetadata(p) ==
  /\ procs[p].pc = "delWriteMetadata"
  /\ metadata' = [metadata EXCEPT ![procs[p].collectionName] =
                    procs[p].metadata]
  /\ Finish(p, "ok")
  /\ UNCHANGED <<dbInfo, documents, indexFiles, uuidCount, last, deleted,
                 snapshot>>

\* the process stops at an await and never comes back
crash(p) ==
  /\ procs[p].pc \notin {"idle", "done", "crashed"}
  /\ procs' = [procs EXCEPT ![p].status = "crashed", ![p].pc = "crashed"]
  /\ UNCHANGED <<store, last, deleted, snapshot>>

\* collection a with documents in it and coherent indexes on some fields, a
\* delete request about to arrive
InitDelete ==
  /\ dbInfo = <<"a">>
  /\ documents \in {[c \in {"a"} |-> dir] : dir \in FindDirs}
  /\ metadata = [c \in {"a"} |-> Cardinality(DOMAIN documents[c])]
  /\ indexFiles \in {createIndexes(<<>>, "a", fields, readAllDocuments("a")) :
                        fields \in SUBSET FindIndexFields}
  /\ uuidCount = 0
  /\ last = [op |-> "initDB", status |-> "ok", cleaned |-> FALSE]
  /\ deleted = [c \in Colls |-> {}]
  /\ procs = [p \in Deleters |-> IdleFrame]
  /\ snapshot = metadata["a"]

NextDelete ==
  \E p \in Deleters :
    \/ \E id \in FindIds : deleteBegin(p, "a", id)
    \/ delPathExists(p)
    \/ rdfiReaddir(p)
    \/ \E file \in DOMAIN indexFiles : rdfiReadJson(p, file)
    \/ \E file \in DOMAIN indexFiles : rdfiWriteJson(p, file)
    \/ rdfiResolved(p)
    \/ delUnlink(p)
    \/ delReadMetadata(p)
    \/ delWriteMetadata(p)
    \/ crash(p)

SpecDelete == InitDelete /\ [][NextDelete]_vars

---------------------------------------------------------------------------
(* Properties of the stepwise delete *)

\* the identifiers the indexes of a collection hold
indexedIds(collectionName) ==
  UNION {idsOf(indexFiles[file].index) :
           file \in collectionIndexFiles(indexFiles, collectionName)}

---------------------------------------------------------------------------
(* POST /api/indexes on a collection whose index file holds anything: a    *)
(* map left behind by failed or racing updates, or no file at all.         *)

\* the longest bucket of an index file before the request
MaxPrior == 2

\* the identifiers an index file may hold: live ones and ones long deleted
PriorIds == {"d1", "d2", "u1"}

\* the lists of identifiers of a bucket
PriorLists ==
  {list \in UNION {[1..n -> PriorIds] : n \in 1..MaxPrior} :
     \A i \in DOMAIN list : \A j \in DOMAIN list : i # j => list[i] # list[j]}

\* the maps the index file may hold before the request
PriorIndexes ==
  UNION {[K -> PriorLists] : K \in SUBSET {JSONstringify(v) : v \in Vals}}

\* collection a with documents in it; its index on f is absent or holds any
\* of the maps,
\* which snapshot keeps
InitRebuild ==
  /\ dbInfo = <<"a">>
  /\ documents \in {[c \in {"a"} |-> dir] : dir \in FindDirs}
  /\ metadata = [c \in {"a"} |-> Cardinality(DOMAIN documents[c])]
  /\ indexFiles \in
       {<<>>} \cup
       {[p \in {getIndexFilePath("a", "f")} |->
           [collectionName |-> "a", field |-> "f", index |-> index]] :
          index \in PriorIndexes}
  /\ uuidCount = 0
  /\ last = [op |-> "initDB", status |-> "ok", cleaned |-> FALSE]
  /\ deleted = [c \in Colls |-> {}]
  /\ procs = <<>>
  /\ snapshot = indexFiles

NextRebuild == \E field \in FindIndexFields : postIndex("a", field)

SpecRebuild == InitRebuild /\ [][NextRebuild]_vars

\* the index map holds exactly the documents of the directory that have a
\* value at the field, each in the bucket of the key of its value and in no
\* other, once
rebuilt(index, dir, field) ==
  /\ idsOf(index) = {id \in DOMAIN dir : lodashGet(dir[id], field) # Missing}
  /\ \A id \in idsOf(index) :
       /\ bucketsOf(index, id) = {JSONstringify(lodashGet(dir[id], field))}
       /\ \A key \in bucketsOf(index, id) :
            Cardinality({i \in DOMAIN index[key] : index[key][i] = id}) = 1

---------------------------------------------------------------------------
(* queryWithIndex called with criteria of one and two operators on the      *)
(* field f, on the collections of the find section.                         *)

\* the query { [key]: { [op]: operand, ... } }
queryOperators(key, operators) == <<<<key, [operators |-> operators]>>>>

\* the criteria of the callers: one comparison operator, or two with
\* different names
PlanOperators ==
  LET pairs == {<<op, v>> : op \in ComparisonOperators, v \in Vals}
  IN  {<<pair>> : pair \in pairs}
        \cup {operators \in pairs \X pairs :
                operators[1][1] # operators[2][1]}

\* a call of queryWithIndex with every document of the collection, as
\* findDocuments makes it; last keeps what it returned
queryWithIndexCall(collectionName, query) ==
  /\ last' = [op |-> "queryWithIndex", status |-> "ok", cleaned |-> FALSE,
              query |-> query,
              result |-> queryWithIndex(indexFiles, collectionName, query,
                                        readAllDocuments(collectionName),
                                        "none")]
  /\ UNCHANGED <<store, deleted, procs, snapshot>>

\* the collection directories whose documents have an _id and f at most
PlanDirs ==
  {dir \in FindDirs : \A id \in DOMAIN dir : DOMAIN dir[id] \subseteq Fields}

\* collection a with documents in it and a coherent index on f
InitPlan ==
  /\ dbInfo = <<"a">>
  /\ documents \in {[c \in {"a"} |-> dir] : dir \in PlanDirs}
  /\ metadata = [c \in {"a"} |-> Cardinality(DOMAIN documents[c])]
  /\ indexFiles = createIndex(<<>>, "a", "f", readAllDocuments("a"))
  /\ uuidCount = 0
  /\ last = [op |-> "initDB", status |-> "ok", cleaned |-> FALSE]
  /\ deleted = [c \in Colls |-> {}]
  /\ procs = <<>>
  /\ snapshot = 0

NextPlan ==
  \E operators \in PlanOperators :
    queryWithIndexCall("a", queryOperators("f", operators))

SpecPlan == InitPlan /\ [][NextPlan]_vars

\* the identifiers an index gives for every operator of a criterion
idsForEveryOperator(index, operators) ==
  {id \in idsOf(index) :
     \A j \in DOMAIN operators :
       id \in idsForOperator(index, operators[j][1], operators[j][2])}

\* C33: with one or several operators on the indexed field, the documents
\* queryWithIndex returns are those whose identifier is in the intersection
\* of the identifier sets of the operators; when the set of the first
\* operator is empty, none.
C33_OperatorsIntersected ==
  ( /\ last.op = "queryWithIndex"
    /\ getIndexFilePath("a", "f") \in DOMAIN indexFiles )
  => {Get(doc, "_id") : doc \in Range(last.result)}
       = idsForEveryOperator(indexFiles[getIndexFilePath("a", "f")].index,
                             last.query[1][2].operators)

---------------------------------------------------------------------------
(* $unwind of a field that holds numbers, strings and booleans.             *)

\* the values of k: of each type one that !value takes as false and one it
\* takes as true
Scalars == {Num(0), Num(1), Str(""), Str("s"), Bool(FALSE), Bool(TRUE)}

\* the documents stored, without their _id: k with a scalar or absent
ScalarDocs == {<<>>} \cup {property("k", v) : v \in Scalars}

ScalarDirs ==
  {dirOf(list) : list \in UNION {[1..n -> ScalarDocs] : n \in 0..MaxDocs}}

\* the options of $unwind on k
ScalarUnwindOptions ==
  {Str("$k"), Obj([path |-> Str("$k")]),
   Obj([path |-> Str("$k"), preserveNullAndEmptyArrays |-> Bool(TRUE)]),
   Obj([path |-> Str("$k"), preserveNullAndEmptyArrays |-> Bool(FALSE)]),
   Obj([path |-> Str("$k"), preserveNullAndEmptyArrays |-> Bool(TRUE),
        includeArrayIndex |-> Str("idx")])}

\* collection a with documents in it
InitUnwind ==
  /\ dbInfo = <<"a">>
  /\ documents \in {[c \in {"a"} |-> dir] : dir \in ScalarDirs}
  /\ metadata = [c \in {"a"} |-> Cardinality(DOMAIN documents[c])]
  /\ indexFiles = <<>>
  /\ uuidCount = 0
  /\ last = [op |-> "initDB", status |-> "ok", cleaned |-> FALSE]
  /\ deleted = [c \in Colls |-> {}]
  /\ procs = <<>>
  /\ snapshot = 0

NextUnwind ==
  \E options \in ScalarUnwindOptions :
    aggregateRoute("a", pipelineOf(<<stageOf("$unwind", options)>>))

SpecUnwind == InitUnwind /\ [][NextUnwind]_vars

\* C34: $unwind drops every document whose value at the path is a number, a
\* string or a boolean, 0, "" and false included, whether or not
\* preserveNullAndEmptyArrays is set: the output has no copy of it.
C34_UnwindDropsScalars ==
  ( /\ ranStage("$unwind")
    /\ ranOptions("$unwind") \in ScalarUnwindOptions )
  => /\ ~isThrow(last.outcome)
     /\ \A doc \in Range(readDocuments) :
          prop(doc, "k") \in Scalars
          => \A i \in DOMAIN last.outcome.ok :
               last.outcome.ok[i]["_id"] # doc["_id"]

---------------------------------------------------------------------------
(* POST /api/indexes step by step, beside an insertDocument.                *)

\* the route up to the first await of findDocuments: getDBInfo and the
\* collection check
postIndexBegin(p, collection, field) ==
  /\ procs[p].pc = "idle"
  /\ IF collection \notin Range(dbInfo)
       THEN procs' = [procs EXCEPT ![p] =
              [Frame("done", "createIndex", collection, "", <<>>, <<>>)
                 EXCEPT !.status = "NotFound", !.fields = {field}]]
       ELSE procs' = [procs EXCEPT ![p] =
              [Frame("findReaddir", "createIndex", collection, "", <<>>, <<>>)
                 EXCEPT !.fields = {field}]]
  /\ UNCHANGED <<store, last, deleted, snapshot>>

\* findDocuments: const files = await fs.readdir(collectionDir); update
\* keeps the names of the document files
findReaddir(p) ==
  /\ procs[p].pc = "findReaddir"
  /\ procs' = [procs EXCEPT
       ![p].update = SelectSeq(ReaddirOrder,
                       LAMBDA id : id \in DOMAIN documents[procs[p].collectionName]),
       ![p].pc = "findReadJson"]
  /\ UNCHANGED <<store, last, deleted, snapshot>>

\* findDocuments: the documents of the files listed read; with the empty
\* query queryWithIndex returns them as they are
findReadJson(p) ==
  /\ procs[p].pc = "findReadJson"
  /\ procs' = [procs EXCEPT
       ![p].document = readInOrder(documents[procs[p].collectionName],
                                   procs[p].update),
       ![p].pc = "ciWriteJson"]
  /\ UNCHANGED <<store, last, deleted, snapshot>>

\* createIndex: the map built from the documents read, and
\* await fs.writeJson(indexFilePath, ...)
ciWriteJson(p) ==
  /\ procs[p].pc = "ciWriteJson"
  /\ indexFiles' = createIndex(indexFiles, procs[p].collectionName,
                               currentField(p), procs[p].document)
  /\ Finish(p, "ok")
  /\ UNCHANGED <<dbInfo, metadata, documents, uuidCount, last, deleted,
                 snapshot>>

\* a collection with some documents and no index on f, or a coherent one;
\* two requests about to arrive
InitRace ==
  /\ dbInfo = <<"a">>
  /\ documents \in {[c \in {"a"} |-> dir] : dir \in ConcDirs}
  /\ metadata = [c \in {"a"} |-> Cardinality(DOMAIN documents[c])]
  /\ indexFiles \in {<<>>, createIndex(<<>>, "a", "f", readAllDocuments("a"))}
  /\ uuidCount = 0
  /\ last = [op |-> "initDB", status |-> "ok", cleaned |-> FALSE]
  /\ deleted = [c \in Colls |-> {}]
  /\ procs = [p \in Procs |-> IdleFrame]
  /\ snapshot = metadata["a"]

NextRace ==
  \E p \in Procs :
    \/ \E doc \in {d \in ConcInsertDocs : d["_id"] \notin DOMAIN documents["a"]} :
         insertBegin(p, "a", doc)
    \/ insWriteDocument(p)
    \/ insReadMetadata(p)
    \/ insWriteMetadata(p)
    \/ stepListIndexes(p)
    \/ uifdPathExists(p)
    \/ uifdReadJson(p)
    \/ uifdWriteJson(p)
    \/ \E field \in IndexFields : postIndexBegin(p, "a", field)
    \/ findReaddir(p)
    \/ findReadJson(p)
    \/ ciWriteJson(p)

SpecRace == InitRace /\ [][NextRace]_vars

\* C35: a request that creates the index on f and an insertDocument of a
\* document with a value at f run concurrently on collection a: in every
\* interleaving, once both have returned, the index on f holds the
\* identifier of the inserted document.
C35_IndexCreationSeesInsert ==
  \A p \in Procs : \A q \in Procs :
    ( /\ BothDone
      /\ procs[p].op = "createIndex"
      /\ procs[q].op = "insertDocument"
      /\ lodashGet(procs[q].document, "f") # Missing )
    => /\ getIndexFilePath("a", "f") \in DOMAIN indexFiles
       /\ procs[q].id
            \in idsOf(indexFiles[getIndexFilePath("a", "f")].index)

\* C36: findDocuments returns the same documents whether or not the
\* collection has an index on a field of the query: what it has returned is
\* what it returns for the same documents with no index file at all.
C36_IndexTransparent ==
  ( /\ last.op = "findDocuments"
    /\ last.status = "ok" )
  => Range(last.result)
       = Range(findResult(documents[last.collectionName], <<>>,
                          last.collectionName, last.query, "none"))

---------------------------------------------------------------------------
(* Two collections, one named by the name of the other followed by an       *)
(* underscore and more, and their indexes.                                  *)

IsoColls == {"a", "a_b"}

\* the fields the clients index: f in both collections, b_f in a
IsoFields == {"f", "b_f"}

\* GET /api/indexes/:collection
getIndexesRoute(collection) ==
  /\ last' = [op |-> "listIndexes", status |-> "ok", cleaned |-> FALSE,
              collectionName |-> collection,
              result |-> listIndexes(indexFiles, collection)]
  /\ UNCHANGED <<store, deleted, procs, snapshot>>

\* both collections with documents in them, each with or without an index
\* on f
InitIso ==
  /\ dbInfo = <<"a", "a_b">>
  /\ documents \in [IsoColls -> ConcDirs]
  /\ metadata = [c \in IsoColls |-> Cardinality(DOMAIN documents[c])]
  /\ indexFiles \in
       {createIndexes(
          createIndexes(<<>>, "a", first, readAllDocuments("a")),
          "a_b", second, readAllDocuments("a_b")) :
          first \in SUBSET {"f"}, second \in SUBSET {"f"}}
  /\ uuidCount = 0
  /\ last = [op |-> "initDB", status |-> "ok", cleaned |-> FALSE]
  /\ deleted = [c \in IsoColls |-> {}]
  /\ procs = <<>>
  /\ snapshot = 0

NextIso ==
  \E c \in IsoColls :
    \/ deleteCollection(c)
    \/ \E id \in ConcIds : deleteDocument(c, id)
    \/ getIndexesRoute(c)
    \/ \E field \in IsoFields : postIndex(c, field)

SpecIso == InitIso /\ [][NextIso]_vars

\* the index files whose record is of another collection are as they were
othersUntouched(collection) ==
  \A file \in DOMAIN indexFiles :
    indexFiles[file].collectionName # collection
    => file \in DOMAIN indexFiles' /\ indexFiles'[file] = indexFiles[file]

\* C37: deleteCollection(C) and deleteDocument(C, id) change and delete only
\* index records of C, listIndexes(C) returns only records of C, also when
\* the name of another collection is the name of C, an underscore and more;
\* and creating the index of one (collection, field) pair leaves the record
\* of every other pair as it was.
C37_CollectionsIsolated ==
  [][\A c \in IsoColls :
       /\ deleteCollection(c) => othersUntouched(c)
       /\ \A id \in ConcIds : deleteDocument(c, id) => othersUntouched(c)
       /\ getIndexesRoute(c) =>
            \A record \in last'.result : record.collectionName = c
       /\ \A field \in IsoFields :
            postIndex(c, field) =>
              \A file \in DOMAIN indexFiles :
                ( indexFiles[file].collectionName # c
                    \/ indexFiles[file].field # field )
                => file \in DOMAIN indexFiles'
                     /\ indexFiles'[file] = indexFiles[file]]_vars

---------------------------------------------------------------------------
(* createCollection step by step, two requests at a time.                   *)

\* the names the clients give their collections
CreateNames == {"a", "b", "c"}

\* listCollections: the metadata of every collection of the database info
listCollections(info, meta) ==
  [i \in DOMAIN info |-> [name |-> info[i], documentCount |-> meta[info[i]]]]

\* createCollection up to its first await: the name validated
createBegin(p, name) ==
  /\ procs[p].pc = "idle"
  /\ IF name = ""
       THEN procs' = [procs EXCEPT ![p] =
              [Frame("done", "createCollection", name, "", <<>>, <<>>)
                 EXCEPT !.status = "InvalidArgument"]]
       ELSE procs' = [procs EXCEPT ![p] =
              Frame("ccGetDBInfo", "createCollection", name, "", <<>>, <<>>)]
  /\ UNCHANGED <<store, last, deleted, snapshot>>

\* const dbInfo = await getDBInfo(), and the check of its collections;
\* update keeps the list read
ccGetDBInfo(p) ==
  /\ procs[p].pc = "ccGetDBInfo"
  /\ IF procs[p].collectionName \in Range(dbInfo)
       THEN Finish(p, "AlreadyExists")
       ELSE procs' = [procs EXCEPT ![p].update = dbInfo,
                                   ![p].pc = "ccEnsureDir"]
  /\ UNCHANGED <<store, last, deleted, snapshot>>

\* await fs.ensureDir(collectionDir)
ccEnsureDir(p) ==
  /\ procs[p].pc = "ccEnsureDir"
  /\ documents' = IF procs[p].collectionName \in DOMAIN documents
                    THEN documents
                    ELSE Put(documents, procs[p].collectionName, <<>>)
  /\ Goto(p, "ccWriteMetadata")
  /\ UNCHANGED <<dbInfo, metadata, indexFiles, uuidCount, last, deleted,
                 snapshot>>

\* await fs.writeJson(metadataFile, { name, created, documentCount: 0 })
ccWriteMetadata(p) ==
  /\ procs[p].pc = "ccWriteMetadata"
  /\ metadata' = Put(metadata, procs[p].collectionName, 0)
  /\ Goto(p, "ccWriteDBInfo")
  /\ UNCHANGED <<dbInfo, documents, indexFiles, uuidCount, last, deleted,
                 snapshot>>

\* dbInfo.collections.push(name); await fs.writeJson(DB_INFO_FILE, dbInfo)
ccWriteDBInfo(p) ==
  /\ procs[p].pc = "ccWriteDBInfo"
  /\ dbInfo' = Append(procs[p].update, procs[p].collectionName)
  /\ Finish(p, "ok")
  /\ UNCHANGED <<metadata, documents, indexFiles, uuidCount, last, deleted,
                 snapshot>>

\* a database with no collection or one, two requests about to arrive
InitCreate ==
  /\ dbInfo \in {<<>>} \cup {<<name>> : name \in CreateNames}
  /\ documents = [c \in Range(dbInfo) |-> <<>>]
  /\ metadata = [c \in Range(dbInfo) |-> 0]
  /\ indexFiles = <<>>
  /\ uuidCount = 0
  /\ last = [op |-> "initDB", status |-> "ok", cleaned |-> FALSE]
  /\ deleted = [c \in Colls |-> {}]
  /\ procs = [p \in Procs |-> IdleFrame]
  /\ snapshot = 0

NextCreate ==
  \E p \in Procs :
    \/ \E name \in CreateNames \cup {""} : createBegin(p, name)
    \/ ccGetDBInfo(p)
    \/ ccEnsureDir(p)
    \/ ccWriteMetadata(p)
    \/ ccWriteDBInfo(p)

SpecCreate == InitCreate /\ [][NextCreate]_vars

\* C38: two createCollection calls with different names running
\* concurrently: once both have returned successfully, both names are in
\* the collection list of the database info and listCollections returns
\* both.
C38_ConcurrentCreatesKept ==
  ( /\ BothDone
    /\ \A p \in Procs : procs[p].op = "createCollection"
    /\ procs["p1"].collectionName # procs["p2"].collectionName )
  => \A p \in Procs :
       /\ procs[p].collectionName \in Range(dbInfo)
       /\ \E i \in DOMAIN listCollections(dbInfo, metadata) :
            listCollections(dbInfo, metadata)[i].name
              = procs[p].collectionName

---------------------------------------------------------------------------
(* $group with each of the accumulators, on the collections of the          *)
(* aggregation section.                                                     *)

Accumulators ==
  {"$sum", "$avg", "$min", "$max", "$first", "$last", "$push", "$addToSet"}

\* groupings of all documents into one group, with the accumulator n over k
AccumulatorGroupings ==
  {Obj([_id |-> NullValue, n |-> Obj(property(op, Str("$k")))]) :
     op \in Accumulators}

NextGroup ==
  \E grouping \in AccumulatorGroupings :
    aggregateRoute("a", pipelineOf(<<stageOf("$group", grouping)>>))

SpecGroup == InitAgg /\ [][NextGroup]_vars

\* C39: every document output by $group has exactly the fields _id and the
\* accumulator names declared in the group specification, for each of the
\* supported accumulators; no other field is in the output.
C39_GroupOutputShape ==
  ( /\ ranStage("$group")
    /\ ranOptions("$group") \in AccumulatorGroupings )
  => /\ ~isThrow(last.outcome)
     /\ \A i \in DOMAIN last.outcome.ok :
          DOMAIN last.outcome.ok[i]
            = {"_id"} \cup DOMAIN ranOptions("$group").obj

---------------------------------------------------------------------------
(* The backup manager: createBackup and restoreFromBackup.  In this part    *)
(* snapshot is the directory data/backups: the archive of each backup file. *)
(* The users directory is not modelled.                                     *)

\* data/db_info.json does not exist
NoFile == "<no file>"

\* the names the clients give their backups and the seconds they are made at
BackupNames == {"backup"}
Timestamps == {"t1", "t2"}

\* `${name}_${timestamp}.zip`
backupNameOf(name, timestamp) == name \o "_" \o timestamp \o ".zip"

BackupFiles ==
  {backupNameOf(name, timestamp) : name \in BackupNames, timestamp \in Timestamps}

\* the entries archiver is given: the collections directory, db_info.json
\* if it exists, the indexes directory
archiveOf(info, meta, docs, files) ==
  [entry \in {"collections", "indexes"}
             \cup (IF info = NoFile THEN {} ELSE {"db_info.json"}) |->
     CASE entry = "collections" -> [metadata |-> meta, documents |-> docs]
       [] entry = "db_info.json" -> info
       [] entry = "indexes" -> files]

\* extractZip: resolves at once; nothing is written to the destination
extractZip(zip, destination) == destination

\* createBackup at a given second
createBackup(name, timestamp) ==
  /\ snapshot' = Put(snapshot, backupNameOf(name, timestamp),
                     archiveOf(dbInfo, metadata, documents, indexFiles))
  /\ Return("createBackup", FALSE)
  /\ UNCHANGED <<store, deleted, procs>>

\* restoreFromBackup: the archive extracted to temp_restore, the data
\* removed, and what temp_restore holds copied in its place
restoreFromBackup(filename) ==
  /\ IF filename \notin DOMAIN snapshot
       THEN Throw("restoreFromBackup", "NotFound")
       ELSE LET tempDir == extractZip(snapshot[filename], <<>>)
            IN  /\ documents' = IF "collections" \in DOMAIN tempDir
                                  THEN tempDir["collections"].documents
                                  ELSE <<>>
                /\ metadata' = IF "collections" \in DOMAIN tempDir
                                 THEN tempDir["collections"].metadata
                                 ELSE <<>>
                /\ dbInfo' = IF "db_info.json" \in DOMAIN tempDir
                               THEN tempDir["db_info.json"] ELSE NoFile
                /\ indexFiles' = IF "indexes" \in DOMAIN tempDir
                                   THEN tempDir["indexes"] ELSE <<>>
                /\ UNCHANGED <<uuidCount, deleted>>
                /\ last' = [op |-> "restoreFromBackup", status |-> "ok",
                            cleaned |-> FALSE, filename |-> filename]
  /\ UNCHANGED <<procs, snapshot>>

\* deleteDocument when getDBInfo may find no db_info.json to read
deleteDocumentRoute(collectionName, id) ==
  IF dbInfo = NoFile
    THEN Throw("deleteDocument", "Internal") /\ UNCHANGED <<procs, snapshot>>
    ELSE deleteDocument(collectionName, id)

\* collection a with documents in it and coherent indexes on some fields;
\* no backup yet
InitBackup ==
  /\ dbInfo = <<"a">>
  /\ documents \in {[c \in {"a"} |-> dir] : dir \in FindDirs}
  /\ metadata = [c \in {"a"} |-> Cardinality(DOMAIN documents[c])]
  /\ indexFiles \in {createIndexes(<<>>, "a", fields, readAllDocuments("a")) :
                        fields \in SUBSET {"f"}}
  /\ uuidCount = 0
  /\ last = [op |-> "initDB", status |-> "ok", cleaned |-> FALSE]
  /\ deleted = [c \in Colls |-> {}]
  /\ procs = <<>>
  /\ snapshot = <<>>

NextBackup ==
  \/ \E name \in BackupNames, timestamp \in Timestamps :
       createBackup(name, timestamp)
  \/ \E filename \in BackupFiles : restoreFromBackup(filename)
  \/ \E id \in FindIds : deleteDocumentRoute("a", id)

SpecBackup == InitBackup /\ [][NextBackup]_vars

\* C40: createBackup followed later by a successful restoreFromBackup of
\* that backup leaves the database with the database info, collections,
\* documents and indexes it had when the backup was created, and with no
\* fewer collections than the backup holds.
C40_BackupRoundTrip ==
  [][\A filename \in BackupFiles :
       ( /\ filename \in DOMAIN snapshot
         /\ restoreFromBackup(filename)
         /\ last'.status = "ok" )
       => /\ archiveOf(dbInfo', metadata', documents', indexFiles')
               = snapshot[filename]
          /\ Cardinality(DOMAIN documents')
               >= Cardinality(DOMAIN snapshot[filename]["collections"].documents)]_vars

====
